---- MODULE Spec2Model ----
(***************************************************************************)
(* A model of the m2cs FileClient (src/FileClient.go, second listing,      *)
(* lines 333-681), its file cache (src/internal/caching) and its load      *)
(* balancers (src/internal/loadbalancing).                                 *)
(*                                                                         *)
(* Backends are numbered 1..Len(storages) in list order.  A backend call   *)
(* is one step whose outcome (success or error) is chosen by the           *)
(* environment; a call made with a cancelled context fails.  Time is       *)
(* counted in minutes.                                                     *)
(***************************************************************************)
EXTENDS Integers, Sequences, FiniteSets, Bags, TLC

----------------------------------------------------------------------------
(* Bounds of the model *)

MaxStorages == 3

MaxCachedStorages == 2

MaxOps == 2

MaxTime == 2

\* The most backends and sequential GetObject calls of a FileClient that
\* only reads.
MaxGetStorages == 3

MaxGets == 6

\* The largest MaxItems of the caches tried on their own.
MaxItemsTried == 2

\* The longest payload given to a backend client.
MaxPayloadLen == 1

----------------------------------------------------------------------------
(* Program constants *)

SYNC_REPLICATION == 0

ASYNC_REPLICATION == 1

READ_REPLICA_FIRST == 0

ROUND_ROBIN == 1

NO_VALIDATION == 0

SAMPLING_VALIDATION == 1

Minute == 1

DefaultMaxSizeMB == 1024

DefaultTTL == 10 * Minute

DefaultMaxItems == 5

DefaultValidationInterval == 30 * Minute

BytesPerMB == 1024 * 1024

\* common.go:16
NO_COMPRESSION == 0

\* common.go:17
GZIP_COMPRESSION == 1

\* common.go:23
NO_ENCRYPTION == 0

\* common.go:24
AES256_ENCRYPTION == 1

----------------------------------------------------------------------------
(* Inputs *)

StoreBoxes == {"docs", "img"}

FileNames == {"report.pdf"}

\* A payload is its content (id) and its length in bytes.
NoData == [id |-> 0, len |-> 0]

Payloads == {[id |-> 1, len |-> 0], [id |-> 2, len |-> BytesPerMB + 1]}

NilReader == [id |-> -1, len |-> 0]

FailingReader == [id |-> -2, len |-> 0]

Readers == Payloads \cup {NilReader, FailingReader}

ReplicationModes == {SYNC_REPLICATION, ASYNC_REPLICATION, 2}

LoadBalancingStrategies == {READ_REPLICA_FIRST, ROUND_ROBIN, 2}

NilValidationOptions ==
    [isNil |-> TRUE, Strategy |-> NO_VALIDATION, SamplingPercent |-> 0,
     ValidationInterval |-> 0]

SamplingOptions ==
    [isNil |-> FALSE, Strategy |-> SAMPLING_VALIDATION, SamplingPercent |-> 50,
     ValidationInterval |-> 1 * Minute]

\* The option records ConfigureCache is called with.
CacheOptionInputs ==
    { [Enabled |-> e, MaxSizeMB |-> o[1], TTL |-> o[2], MaxItems |-> o[3],
       ValidationStrategy |-> o[4]] :
        e \in BOOLEAN,
        o \in { <<0, 0, 0, NilValidationOptions>>,
                <<1, 1 * Minute, 1, SamplingOptions>> } }

----------------------------------------------------------------------------
VARIABLES
    storages,         \* FileClient.storages: IsMainInstance of each backend
    replicationMode,  \* FileClient.replicationMode
    lbStrategy,       \* FileClient.lbStrategy
    lb,               \* FileClient.lb: the load balancer and its cursor
    cache,            \* FileClient.cache: NoCache or the FileCache
    now,              \* time.Now()
    pc,               \* position of each caller
    call,             \* locals of each caller's current (or last) call
    bg,               \* detached goroutines of ASYNC PutObject not yet run
    val,              \* the validation goroutine of the cache
    nops,             \* number of PutObject/GetObject/RemoveObject calls started
    backend,          \* one backend client and the storage service behind it
    valWG             \* FileCache.valWG: the validation goroutines of a cache
                      \* whose routine concurrent callers start and stop

vars == <<storages, replicationMode, lbStrategy, lb, cache, now,
          pc, call, bg, val, nops, backend, valWG>>

----------------------------------------------------------------------------
(* Helpers *)

Backends == 1..Len(storages)

ObjectIds == StoreBoxes \X FileNames

\* storeBox + "/" + fileName
CacheKey(storeBox, fileName) == storeBox \o "/" \o fileName

CacheKeys == {CacheKey(id[1], id[2]) : id \in ObjectIds}

\* FileClient.go:382-387: the indices of the backends whose IsMainInstance
\* equals wanted, in list order.
SelectIdx(list, wanted) ==
    LET F[i \in 0..Len(list)] ==
            IF i = 0 THEN <<>>
            ELSE IF list[i] = wanted THEN Append(F[i - 1], i) ELSE F[i - 1]
    IN F[Len(list)]

Reverse(s) == [i \in 1..Len(s) |-> s[Len(s) + 1 - i]]

MainStoragesReversed == Reverse(SelectIdx(storages, TRUE))

MainStoragesAll == [i \in 1..Len(storages) |-> i]

\* FileClient.go:382-387, 528-534: the backends with IsMainInstance set.
MainStorages == SelectIdx(storages, TRUE)

\* FileClient.go:460-466
NonMainStorages == SelectIdx(storages, FALSE)

\* append(mains[:i], mains[i+1:]...)
RemoveAt(s, i) == SubSeq(s, 1, i - 1) \o SubSeq(s, i + 1, Len(s))

Range(s) == {s[i] : i \in DOMAIN s}

\* The outcomes a backend call can have under a context.
BackendOutcomes(ctx) == IF ctx = "cancelled" THEN {FALSE} ELSE BOOLEAN

----------------------------------------------------------------------------
(* Results: nil, or an error given by its format string and arguments *)

Pending == [text |-> "pending", k |-> 0, n |-> 0, data |-> NoData]

Nil == [text |-> "nil", k |-> 0, n |-> 0, data |-> NoData]

Data(d) == [text |-> "nil", k |-> 0, n |-> 0, data |-> d]

Error(text) == [text |-> text, k |-> 0, n |-> 0, data |-> NoData]

Error1(text, n) == [text |-> text, k |-> 0, n |-> n, data |-> NoData]

Error2(text, k, n) == [text |-> text, k |-> k, n |-> n, data |-> NoData]

NoOptions ==
    [Enabled |-> FALSE, MaxSizeMB |-> 0, TTL |-> 0, MaxItems |-> 0,
     ValidationStrategy |-> NilValidationOptions]

IdleCall ==
    [op |-> "none", storeBox |-> "", fileName |-> "", ctx |-> "live",
     buf |-> NoData, mains |-> <<>>, i |-> 0, errs |-> <<>>, tried |-> <<>>,
     pending |-> {}, opts |-> NoOptions, result |-> Pending]

----------------------------------------------------------------------------
(* The file cache, src/internal/caching/cache.go *)

NoCache ==
    [configured |-> FALSE, File |-> << >>, Options |-> NoOptions,
     valCancel |-> FALSE, mu |-> 0, valMu |-> 0]

NoEntry == [present |-> FALSE, data |-> NoData, createAt |-> 0]

Entry(d, t) == [present |-> TRUE, data |-> d, createAt |-> t]

EmptyFile == [key \in CacheKeys |-> NoEntry]

EnabledWhenConfigured(c) == c.configured

\* cache.go:116-118
Enabled(c) == c.configured /\ c.Options.Enabled

\* FileClient.go:418, 432, 449, 512, 558: f.cache != nil && f.cache.Enabled()
CacheInUse(c) == c.configured /\ Enabled(c)

Count(file) == Cardinality({key \in DOMAIN file : file[key].present})

\* cache.go:102-107
Invalidate(c, key) ==
    [c EXCEPT !.File = [@ EXCEPT ![key] = NoEntry]]

\* cache.go:110-114
Clear(c) == [c EXCEPT !.File = [key \in DOMAIN c.File |-> NoEntry]]

ExpiredNever(c, key, t) == FALSE

\* cache.go:88-96: the entry is expired when createAt is before now - TTL.
Expired(c, key, t) == c.File[key].createAt < t - c.Options.TTL

\* cache.go:80-99: the cache after GetFile (an expired entry is deleted).
GetFileCache(c, key, t) ==
    IF Enabled(c) /\ c.File[key].present /\ Expired(c, key, t)
    THEN Invalidate(c, key)
    ELSE c

\* cache.go:80-99: GetFile returns a reader (a hit) or nil.
GetFileHit(c, key, t) ==
    Enabled(c) /\ c.File[key].present /\ ~Expired(c, key, t)

\* cache.go:63-74: the keys the eviction scan can end on: an entry with the
\* oldest timestamp among those before time.Now(); none when there is none.
OldestFiles(file, t) ==
    {key \in DOMAIN file :
        /\ file[key].present
        /\ file[key].createAt < t
        /\ \A other \in DOMAIN file :
              file[other].present => file[key].createAt <= file[other].createAt}

StoreEvictingOnOverwrite(c, key, d, t) ==
    IF ~Enabled(c) THEN {c}
    ELSE IF d.len > c.Options.MaxSizeMB * 1024 * 1024 THEN {c}
    ELSE IF c.File[key].present
         THEN {[c EXCEPT !.File = [k \in DOMAIN @ |->
                                  IF k = key THEN Entry(d, t) ELSE NoEntry]]}
    ELSE {[c EXCEPT !.File = [@ EXCEPT ![key] = Entry(d, t)]]}

StoreOversized(c, key, d, t) ==
    IF ~Enabled(c) THEN {c}
    ELSE {[c EXCEPT !.File = [@ EXCEPT ![key] = Entry(d, t)]]}

StoreNothing(c, key, d, t) == {c}

\* cache.go:38-75: the caches Store can leave.  The call holds the mutex and
\* is taken at one instant t: the timestamp of the entry (cache.go:54, 60)
\* and the start value of the eviction scan (cache.go:66) are the same
\* reading of the clock.
Store(c, key, d, t) ==
    IF ~Enabled(c) THEN {c}
    ELSE IF d.len > c.Options.MaxSizeMB * 1024 * 1024 THEN {c}
    ELSE IF c.File[key].present
         THEN {[c EXCEPT !.File = [@ EXCEPT ![key] = Entry(d, t)]]}
    ELSE LET inserted == [c.File EXCEPT ![key] = Entry(d, t)] IN
         IF Count(inserted) > c.Options.MaxItems
         THEN IF OldestFiles(inserted, t) = {}
              THEN {[c EXCEPT !.File = inserted]}
              ELSE {[c EXCEPT !.File = [inserted EXCEPT ![oldest] = NoEntry]] :
                       oldest \in OldestFiles(inserted, t)}
         ELSE {[c EXCEPT !.File = inserted]}

----------------------------------------------------------------------------
(* The validation goroutine, cache.go:122-212 and SamplingValidation.go *)

NoTask == [state |-> "none", cancelled |-> FALSE, interval |-> 0,
           sample |-> {}, at |-> 0, rate |-> 0]

\* cache.go:139: no routine for a disabled cache or without a sampling policy.
NoRoutine(options) ==
    \/ ~options.Enabled
    \/ options.ValidationStrategy.isNil
    \/ options.ValidationStrategy.Strategy = NO_VALIDATION

\* cache.go:143-146
Interval(v) ==
    IF v.ValidationInterval <= 0 THEN DefaultValidationInterval
    ELSE v.ValidationInterval

\* cache.go:122-183: the cache and the task after StartValidationRoutine.
StartedCache(c) ==
    IF c.valCancel \/ NoRoutine(c.Options) THEN c
    ELSE [c EXCEPT !.valCancel = TRUE]

StartedTask(c, task) ==
    IF c.valCancel \/ NoRoutine(c.Options) THEN task
    ELSE [state |-> "select", cancelled |-> FALSE,
          interval |-> Interval(c.Options.ValidationStrategy),
          sample |-> {}, at |-> 0, rate |-> 0]

\* SamplingValidation.go:52-58
Ceil(a, b) == (a + b - 1) \div b

SampleCountAll(n, rate) == n

SampleCount(n, rate) ==
    LET raw == Ceil(n * rate, 100)
        atLeastOne == IF raw = 0 THEN 1 ELSE raw
    IN IF atLeastOne > n THEN n ELSE atLeastOne

\* SamplingValidation.go:41-49: the (key, createAt) pairs of the snapshot.
Snapshot(file) ==
    {<<key, file[key].createAt>> : key \in {k \in DOMAIN file : file[k].present}}

\* cache.go:159-174 and SamplingValidation.go:14-62: the goroutine after a
\* tick of the ticker, on cache c at time t.  It returns when the cache is
\* disabled, has no sampling policy or its interval changed; otherwise it
\* snapshots the map and draws the sample, which is empty for a rate of 0 or
\* an empty map.
Ticked(task, c, t) ==
    LET v == c.Options.ValidationStrategy
        curIV == IF ~v.isNil /\ v.ValidationInterval > 0
                 THEN v.ValidationInterval ELSE task.interval
        rate == IF v.SamplingPercent > 100 THEN 100 ELSE v.SamplingPercent
        entries == Snapshot(c.File)
    IN IF NoRoutine(c.Options) \/ curIV # task.interval
       THEN {NoTask}
       ELSE IF rate <= 0 \/ entries = {}
       THEN {[task EXCEPT !.state = "validate", !.sample = {}, !.at = t]}
       ELSE {[task EXCEPT !.state = "validate", !.sample = sample, !.at = t] :
                sample \in {x \in SUBSET entries :
                    Cardinality(x) = SampleCount(Cardinality(entries), rate)}}

\* cache.go:159-174: a tick of the ticker of the validation goroutine.
ValidationTick ==
    /\ val.state = "select"
    /\ val' \in Ticked(val, cache, now)
    /\ UNCHANGED <<valWG, backend, storages, replicationMode, lbStrategy, lb, cache, now, pc, call, bg, nops>>

DeleteUncheckedUnderLock(fi, createAt, ttl, t) == fi.present

\* SamplingValidation.go:69-73: under the lock, the entry is deleted when it
\* is still the one of the snapshot and is older than the TTL at time t.
DeleteUnderLock(fi, createAt, ttl, t) ==
    /\ fi.present
    /\ fi.createAt = createAt
    /\ fi.createAt + ttl < t

\* SamplingValidation.go:63-78: the goroutine and the cache after one
\* sampled entry, at time t.  The entry is deleted when its snapshot age
\* exceeds the TTL and, under the lock, it is still present with the same
\* timestamp and still older than the TTL.  After the last entry the
\* goroutine is back at its select.
Examined(task, c, t) ==
    IF task.sample = {}
    THEN {<<[task EXCEPT !.state = "select", !.at = 0], c>>}
    ELSE {<<[task EXCEPT !.sample = @ \ {e}],
            IF /\ e[2] + c.Options.TTL < task.at
               /\ DeleteUnderLock(c.File[e[1]], e[2], c.Options.TTL, t)
            THEN Invalidate(c, e[1])
            ELSE c>> : e \in task.sample}

\* SamplingValidation.go:63-78: one sampled entry of the running pass.
ValidationStep ==
    /\ val.state = "validate"
    /\ \E next \in Examined(val, cache, now) :
         /\ val' = next[1]
         /\ cache' = next[2]
    /\ UNCHANGED <<valWG, backend, storages, replicationMode, lbStrategy, lb, now,
                   pc, call, bg, nops>>

\* cache.go:176-177: the cancelled goroutine returns.
ValidationExit ==
    /\ val.state = "select"
    /\ val.cancelled
    /\ val' = NoTask
    /\ UNCHANGED <<valWG, backend, storages, replicationMode, lbStrategy, lb, cache, now, pc, call, bg, nops>>

----------------------------------------------------------------------------
(* Cache configuration, FileClient.go:572-642 *)

\* FileClient.go:577-585
Defaulted(options) ==
    [options EXCEPT
        !.MaxSizeMB = IF @ <= 0 THEN DefaultMaxSizeMB ELSE @,
        !.TTL = IF @ <= 0 THEN DefaultTTL ELSE @,
        !.MaxItems = IF @ <= 0 THEN DefaultMaxItems ELSE @]

\* FileClient.go:591-600
NewCache(options) ==
    [configured |-> TRUE, File |-> EmptyFile, Options |-> options,
     valCancel |-> FALSE, mu |-> 0, valMu |-> 0]

\* The call returns; of its locals only what the caller sees is kept.
Return(c, result) ==
    /\ pc' = [pc EXCEPT ![c] = "idle"]
    /\ call' = [call EXCEPT ![c] =
          [IdleCall EXCEPT !.op = call[c].op, !.storeBox = call[c].storeBox,
                           !.fileName = call[c].fileName, !.result = result]]

ExitedOrNot(task) == TRUE

\* cache.go:197: valWG.Wait() returns once the goroutine has returned.
Exited(task) == task.state = "none"

\* cache.go:186-199: StopValidationRoutine up to cancel(); the caller then
\* waits in valWG.Wait() at the given position.
StopRoutine(c, op, options, waitAt) ==
    /\ cache' = [cache EXCEPT !.valCancel = FALSE]
    /\ val' = [val EXCEPT !.cancelled = TRUE]
    /\ pc' = [pc EXCEPT ![c] = waitAt]
    /\ call' = [call EXCEPT ![c] = [IdleCall EXCEPT !.op = op, !.opts = options]]

\* FileClient.go:572-606, when no routine has to be stopped.
ConfigureCache(c) ==
    /\ pc[c] = "idle"
    /\ \E input \in CacheOptionInputs :
         LET options == Defaulted(input) IN
         IF cache.configured /\ cache.valCancel
         THEN /\ StopRoutine(c, "configure", options, "configureWait")
         ELSE /\ cache' = StartedCache(NewCache(options))
              /\ val' = StartedTask(NewCache(options), val)
              /\ pc' = pc
              /\ call' = [call EXCEPT ![c] =
                            [IdleCall EXCEPT !.op = "configure", !.result = Nil]]
    /\ UNCHANGED <<valWG, backend, storages, replicationMode, lbStrategy, lb, now,
                   bg, nops>>

\* FileClient.go:588-605, once the stopped routine has exited.
ConfigureCacheFinish(c) ==
    /\ pc[c] = "configureWait"
    /\ Exited(val)
    /\ cache' = StartedCache(NewCache(call[c].opts))
    /\ val' = StartedTask(NewCache(call[c].opts), val)
    /\ Return(c, Nil)
    /\ UNCHANGED <<valWG, backend, storages, replicationMode, lbStrategy, lb, now,
                   bg, nops>>

\* FileClient.go:610-625
EnableCache(c) ==
    /\ pc[c] = "idle"
    /\ IF ~cache.configured
       THEN /\ call' = [call EXCEPT ![c] =
                 [IdleCall EXCEPT !.op = "enable",
                     !.result = Error("cache is not configured; configure it before enabling")]]
            /\ UNCHANGED <<cache, val>>
       ELSE LET enabled == [cache EXCEPT !.Options.Enabled = TRUE] IN
            /\ cache' = IF cache.Options.Enabled THEN cache
                        ELSE StartedCache(enabled)
            /\ val' = IF cache.Options.Enabled THEN val
                      ELSE StartedTask(enabled, val)
            /\ call' = [call EXCEPT ![c] =
                          [IdleCall EXCEPT !.op = "enable", !.result = Nil]]
    /\ UNCHANGED <<valWG, backend, storages, replicationMode, lbStrategy, lb, now,
                   pc, bg, nops>>

\* FileClient.go:629-636
DisableCache(c) ==
    /\ pc[c] = "idle"
    /\ cache.configured
    /\ IF cache.valCancel
       THEN StopRoutine(c, "disable", cache.Options, "disableWait")
       ELSE /\ cache' = [cache EXCEPT !.Options.Enabled = FALSE]
            /\ call' = [call EXCEPT ![c] =
                          [IdleCall EXCEPT !.op = "disable", !.result = Nil]]
            /\ UNCHANGED <<pc, val>>
    /\ UNCHANGED <<valWG, backend, storages, replicationMode, lbStrategy, lb, now,
                   bg, nops>>

\* FileClient.go:634-635, once the stopped routine has exited.
DisableCacheFinish(c) ==
    /\ pc[c] = "disableWait"
    /\ Exited(val)
    /\ cache' = [cache EXCEPT !.Options.Enabled = FALSE]
    /\ Return(c, Nil)
    /\ UNCHANGED <<valWG, backend, storages, replicationMode, lbStrategy, lb, now,
                   bg, val, nops>>

\* FileClient.go:638-642
ClearCache(c) ==
    /\ pc[c] = "idle"
    /\ cache.configured
    /\ cache' = Clear(cache)
    /\ call' = [call EXCEPT ![c] =
                  [IdleCall EXCEPT !.op = "clear", !.result = Nil]]
    /\ UNCHANGED <<valWG, backend, storages, replicationMode, lbStrategy, lb, now,
                   pc, bg, val, nops>>

----------------------------------------------------------------------------
(* PutObject, FileClient.go:372-445 *)

StartCall(op, storeBox, fileName) ==
    [IdleCall EXCEPT !.op = op, !.storeBox = storeBox, !.fileName = fileName]

NoMainInstanceNever(mains) == FALSE

\* FileClient.go:388, 536: len(mainStorages) == 0
NoMainInstance(mains) == Len(mains) = 0

\* FileClient.go:372-392: the reader is read, the main backends are
\* collected and the replication mode selects the branch.
PutObject(c) ==
    /\ pc[c] = "idle"
    /\ nops < MaxOps
    /\ nops' = nops + 1
    /\ \E storeBox \in StoreBoxes, fileName \in FileNames, reader \in Readers :
         LET started == StartCall("put", storeBox, fileName)
             mains == MainStorages
             fail(e) == /\ pc' = pc
                        /\ call' = [call EXCEPT ![c] =
                              [started EXCEPT !.buf = reader, !.result = e]]
             goto(at) == /\ pc' = [pc EXCEPT ![c] = at]
                         /\ call' = [call EXCEPT ![c] =
                               [started EXCEPT !.buf = reader, !.mains = mains,
                                               !.i = 1]]
         IN IF reader = NilReader THEN fail(Error("reader is nil"))
            ELSE IF reader = FailingReader
                 THEN fail(Error("failed to read input stream: %w"))
            ELSE IF NoMainInstance(mains)
                 THEN fail(Error("no main instance found for PutObject operation"))
            ELSE IF replicationMode = ASYNC_REPLICATION THEN goto("putAsync")
            ELSE IF replicationMode = SYNC_REPLICATION THEN goto("putSync")
            ELSE fail(Error1("unsupported replication mode: %v", replicationMode))
    /\ bg' = {g \in bg : g.state = "launched"}
    /\ UNCHANGED <<valWG, backend, storages, replicationMode, lbStrategy, lb, cache, now, val>>

PutSyncDoneAtFirstError(i, mains, errs) == i > Len(mains) \/ Len(errs) > 0

\* FileClient.go:426: the SYNC loop ends after the last main backend.
PutSyncDone(i, mains, errs) == i > Len(mains)

\* FileClient.go:426-430: one iteration of the SYNC loop.
PutSyncWrite(c) ==
    /\ pc[c] = "putSync"
    /\ ~PutSyncDone(call[c].i, call[c].mains, call[c].errs)
    /\ LET b == call[c].mains[call[c].i] IN
       \E ok \in BackendOutcomes(call[c].ctx) :
         call' = [call EXCEPT
                ![c].i = @ + 1,
                ![c].tried = Append(@, b),
                ![c].errs = IF ok THEN @ ELSE Append(@, b)]
    /\ UNCHANGED <<valWG, backend, storages, replicationMode, lbStrategy, lb, cache, now, pc,
                   bg, val, nops>>

PutSyncResultNoTotal(errs, mains) ==
    IF Len(errs) = 0 THEN Nil
    ELSE Error2("[sync] PutObject partially failed on %d/%d storages: %w",
                Len(errs), Len(mains))

\* FileClient.go:431-440: the result of the SYNC branch.
PutSyncResult(errs, mains) ==
    IF Len(errs) = 0 THEN Nil
    ELSE IF Len(errs) = Len(mains)
         THEN Error1("[sync] PutObject failed on all %d storages: %w", Len(mains))
    ELSE Error2("[sync] PutObject partially failed on %d/%d storages: %w",
                Len(errs), Len(mains))

PutSyncReturnInvalidating(c) ==
    /\ pc[c] = "putSync"
    /\ PutSyncDone(call[c].i, call[c].mains, call[c].errs)
    /\ cache' = IF CacheInUse(cache)
                THEN Invalidate(cache, CacheKey(call[c].storeBox, call[c].fileName))
                ELSE cache
    /\ Return(c, PutSyncResult(call[c].errs, call[c].mains))
    /\ UNCHANGED <<valWG, backend, storages, replicationMode, lbStrategy, lb, now,
                   bg, val, nops>>

\* FileClient.go:431-440
PutSyncReturn(c) ==
    /\ pc[c] = "putSync"
    /\ PutSyncDone(call[c].i, call[c].mains, call[c].errs)
    /\ cache' = IF Len(call[c].errs) = 0 /\ CacheInUse(cache)
                THEN Invalidate(cache, CacheKey(call[c].storeBox, call[c].fileName))
                ELSE cache
    /\ Return(c, PutSyncResult(call[c].errs, call[c].mains))
    /\ UNCHANGED <<valWG, backend, storages, replicationMode, lbStrategy, lb, now,
                   bg, val, nops>>

PutAsyncDoneEarly(i, mains) == i >= Len(mains)

\* FileClient.go:396: the synchronous pass of ASYNC ran out of main backends.
PutAsyncDone(i, mains) == i > Len(mains)

\* FileClient.go:396-403: one iteration of the synchronous pass of ASYNC.
\* On the first success the backend is taken out of mains and the loop ends.
PutAsyncWrite(c) ==
    /\ pc[c] = "putAsync"
    /\ ~PutAsyncDone(call[c].i, call[c].mains)
    /\ LET i == call[c].i
           b == call[c].mains[i]
       IN \E ok \in BackendOutcomes(call[c].ctx) :
            IF ok
            THEN /\ call' = [call EXCEPT ![c].tried = Append(@, b),
                                         ![c].mains = RemoveAt(@, i)]
                 /\ pc' = [pc EXCEPT ![c] = "putFanOut"]
            ELSE /\ call' = [call EXCEPT ![c].tried = Append(@, b),
                                         ![c].errs = Append(@, b),
                                         ![c].i = i + 1]
                 /\ pc' = pc
    /\ UNCHANGED <<valWG, backend, storages, replicationMode, lbStrategy, lb, cache, now, bg,
                   val, nops>>

\* FileClient.go:404-406
PutAsyncFail(c) ==
    /\ pc[c] = "putAsync"
    /\ PutAsyncDone(call[c].i, call[c].mains)
    /\ Return(c, Error("[async] PutObject failed on all main storages"))
    /\ UNCHANGED <<valWG, backend, storages, replicationMode, lbStrategy, lb, cache, now, bg, val, nops>>

FanOutCallerContext(c) ==
    {[call |-> nops, backend |-> call[c].mains[j], ctx |-> call[c].ctx,
      state |-> "launched"] :
        j \in DOMAIN call[c].mains}

\* FileClient.go:408-416: the goroutines launched for the remaining mains.
\* Each writes with context.Background(), which is never cancelled.
FanOut(c) ==
    {[call |-> nops, backend |-> call[c].mains[j], ctx |-> "live",
      state |-> "launched"] :
        j \in DOMAIN call[c].mains}

\* FileClient.go:408-416
PutAsyncFanOut(c) ==
    /\ pc[c] = "putFanOut"
    /\ bg' = bg \cup FanOut(c)
    /\ pc' = [pc EXCEPT ![c] = "putAsyncReturn"]
    /\ UNCHANGED <<valWG, backend, storages, replicationMode, lbStrategy, lb, cache, now, call, val, nops>>

\* FileClient.go:418-422
PutAsyncReturn(c) ==
    /\ pc[c] = "putAsyncReturn"
    /\ cache' = IF CacheInUse(cache)
                THEN Invalidate(cache, CacheKey(call[c].storeBox, call[c].fileName))
                ELSE cache
    /\ Return(c, Nil)
    /\ UNCHANGED <<valWG, backend, storages, replicationMode, lbStrategy, lb, now,
                   bg, val, nops>>

\* FileClient.go:410-415: a detached goroutine writes; an error is only
\* logged.  The goroutines of the latest PutObject stay on record.
BackgroundWrite ==
    /\ \E g \in bg :
         /\ g.state = "launched"
         /\ \E ok \in BackendOutcomes(g.ctx) :
              bg' = IF g.call = nops
                    THEN (bg \ {g}) \cup
                         {[g EXCEPT !.state = IF ok THEN "written" ELSE "failed"]}
                    ELSE bg \ {g}
    /\ UNCHANGED <<valWG, backend, storages, replicationMode, lbStrategy, lb, cache, now, pc,
                   call, val, nops>>

----------------------------------------------------------------------------
(* RemoveObject, FileClient.go:525-569 *)

\* FileClient.go:525-553: the main backends are collected and one goroutine
\* per main backend is launched.
RemoveObject(c) ==
    /\ pc[c] = "idle"
    /\ nops < MaxOps
    /\ nops' = nops + 1
    /\ \E storeBox \in StoreBoxes, fileName \in FileNames :
         LET started == StartCall("remove", storeBox, fileName)
             mains == MainStorages
         IN IF NoMainInstance(mains)
            THEN /\ pc' = pc
                 /\ call' = [call EXCEPT ![c] = [started EXCEPT !.result =
                       Error("no main instance found for RemoveObject operation")]]
            ELSE /\ pc' = [pc EXCEPT ![c] = "removeWait"]
                 /\ call' = [call EXCEPT ![c] =
                       [started EXCEPT !.mains = mains, !.pending = Range(mains)]]
    /\ UNCHANGED <<valWG, backend, storages, replicationMode, lbStrategy, lb, cache, now, bg, val>>

\* FileClient.go:545-552: the goroutine of one main backend.
RemoveWorker(c) ==
    /\ pc[c] = "removeWait"
    /\ \E b \in call[c].pending :
         \E ok \in BackendOutcomes(call[c].ctx) :
           call' = [call EXCEPT
                  ![c].pending = @ \ {b},
                  ![c].errs = IF ok THEN @ ELSE Append(@, b)]
    /\ UNCHANGED <<valWG, backend, storages, replicationMode, lbStrategy, lb, cache, now, pc,
                   bg, val, nops>>

\* FileClient.go:557-568: the result of RemoveObject.
RemoveResult(errs, mainStorages, allStorages) ==
    IF Len(errs) = 0 THEN Nil
    ELSE IF Len(errs) = Len(mainStorages)
         THEN Error("RemoveObject failed on all main storages: %w")
    ELSE Error2("RemoveObject partially failed on %d/%d storages: %w",
                Len(errs), Len(allStorages))

\* FileClient.go:555-568: after wg.Wait().
RemoveReturn(c) ==
    /\ pc[c] = "removeWait"
    /\ call[c].pending = {}
    /\ cache' = IF Len(call[c].errs) = 0 /\ CacheInUse(cache)
                THEN Invalidate(cache, CacheKey(call[c].storeBox, call[c].fileName))
                ELSE cache
    /\ Return(c, RemoveResult(call[c].errs, call[c].mains, storages))
    /\ UNCHANGED <<valWG, backend, storages, replicationMode, lbStrategy, lb, now,
                   bg, val, nops>>

----------------------------------------------------------------------------
(* The load balancers, src/internal/loadbalancing *)

NoLoadBalancer ==
    [strategy |-> -1, group |-> <<>>, currentClient |-> 0, mu |-> 0]

GroupsMainsFirst ==
    (IF Len(MainStorages) > 0 THEN <<MainStorages>> ELSE <<>>)
    \o (IF Len(NonMainStorages) > 0 THEN <<NonMainStorages>> ELSE <<>>)

\* FileClient.go:468-479: the non-empty groups, replicas first.
Groups ==
    (IF Len(NonMainStorages) > 0 THEN <<NonMainStorages>> ELSE <<>>)
    \o (IF Len(MainStorages) > 0 THEN <<MainStorages>> ELSE <<>>)

Flatten(groups) ==
    LET F[i \in 0..Len(groups)] ==
            IF i = 0 THEN <<>> ELSE F[i - 1] \o groups[i]
    IN F[Len(groups)]

\* classic.go:22-29: the order in which classicLB.Apply tries the clients.
ClassicOrder(groups) == Flatten(groups)

\* roundrobin: start := r.currentClient % clientNum
RoundRobinStart(r) ==
    IF Len(r.group) > 0 /\ Len(r.group[1]) > 0
    THEN r.currentClient % Len(r.group[1])
    ELSE 0

RoundRobinOrderUnrotated(r) == Flatten(r.group)

\* roundrobin: the primary group rotated to start, then the other groups.
RoundRobinOrder(r) ==
    IF Len(r.group) = 0 THEN <<>>
    ELSE LET clientNum == Len(r.group[1])
             start == RoundRobinStart(r)
             primary == [i \in 1..clientNum |->
                            r.group[1][((start + i - 1) % clientNum) + 1]]
         IN primary \o Flatten(Tail(r.group))

RoundRobinAdvanceUnwrapped(r) ==
    IF Len(r.group) > 0 /\ Len(r.group[1]) > 0
    THEN [r EXCEPT !.currentClient = RoundRobinStart(r) + 1]
    ELSE r

RoundRobinStay(r) == r

\* roundrobin: r.currentClient = (start + 1) % clientNum
RoundRobinAdvance(r) ==
    IF Len(r.group) > 0 /\ Len(r.group[1]) > 0
    THEN [r EXCEPT !.currentClient = (RoundRobinStart(r) + 1) % Len(r.group[1])]
    ELSE r

ApplyErrorAllFailed(r, tried) ==
    Error("FileClient GetObject error: all clients failed to get the object")

\* The error of Apply when no client returned the object.
ApplyError(r, tried) ==
    IF r.strategy = READ_REPLICA_FIRST
    THEN IF Len(r.group) = 0
         THEN Error("FileClient GetObject error: no clients available in the group")
         ELSE Error("FileClient GetObject error: all clients failed to get the object")
    ELSE IF Len(r.group) = 0
         THEN Error("FileClient GetObject error: no client groups configured")
    ELSE IF Len(tried) = 0
         THEN Error("FileClient GetObject error: no clients available")
    ELSE Error1("FileClient GetObject error: errors.Join(group#%d: %w ...)",
                Len(tried))

----------------------------------------------------------------------------
(* GetObject, FileClient.go:448-518 *)

\* FileClient.go:449-454: the cache lookup, for a caller that makes at most
\* maxOps calls.
GetObjectUpTo(c, maxOps) ==
    /\ pc[c] = "idle"
    /\ nops < maxOps
    /\ nops' = nops + 1
    /\ \E storeBox \in StoreBoxes, fileName \in FileNames :
         LET started == StartCall("get", storeBox, fileName)
             key == CacheKey(storeBox, fileName)
         IN IF CacheInUse(cache) /\ GetFileHit(cache, key, now)
            THEN /\ cache' = cache
                 /\ pc' = [pc EXCEPT ![c] = "getHit"]
                 /\ call' = [call EXCEPT ![c] =
                       [started EXCEPT !.buf = cache.File[key].data]]
            ELSE /\ cache' = IF CacheInUse(cache)
                             THEN GetFileCache(cache, key, now) ELSE cache
                 /\ pc' = [pc EXCEPT ![c] = "getBalance"]
                 /\ call' = [call EXCEPT ![c] = started]
    /\ UNCHANGED <<valWG, backend, storages, replicationMode, lbStrategy, lb, now,
                   bg, val>>

\* FileClient.go:448-454
GetObject(c) == GetObjectUpTo(c, MaxOps)

\* FileClient.go:448-454: one of a longer series of reads.
GetObjectAgain(c) == GetObjectUpTo(c, MaxGets)

\* FileClient.go:451-453: the cached bytes are returned.
GetHit(c) ==
    /\ pc[c] = "getHit"
    /\ Return(c, Data(call[c].buf))
    /\ UNCHANGED <<valWG, backend, storages, replicationMode, lbStrategy, lb, cache, now, bg,
                   val, nops>>

\* FileClient.go:483-499 and the head of Apply: the load balancer is built
\* on first use; round robin takes its start index and advances the cursor.
GetBalance(c) ==
    /\ pc[c] = "getBalance"
    /\ IF lb = NoLoadBalancer /\ lbStrategy \notin {READ_REPLICA_FIRST, ROUND_ROBIN}
       THEN /\ Return(c, Error1("unsupported load balancing strategy: %v", lbStrategy))
            /\ lb' = lb
       ELSE LET built == IF lb = NoLoadBalancer
                         THEN [strategy |-> lbStrategy, group |-> Groups,
                               currentClient |-> 0, mu |-> 0]
                         ELSE lb
                order == IF built.strategy = READ_REPLICA_FIRST
                         THEN ClassicOrder(built.group)
                         ELSE RoundRobinOrder(built)
            IN /\ lb' = IF built.strategy = ROUND_ROBIN
                        THEN RoundRobinAdvance(built) ELSE built
               /\ pc' = [pc EXCEPT ![c] = "getTry"]
               /\ call' = [call EXCEPT ![c].mains = order, ![c].i = 1]
    /\ UNCHANGED <<valWG, backend, storages, replicationMode, lbStrategy, cache, now,
                   bg, val, nops>>

\* What a backend can return for an object: the backends are remote
\* services whose contents the FileClient does not own.
Served(b, storeBox, fileName) == Payloads

\* classic.go:24-27, roundrobin Apply: one client is asked for the object.
GetTry(c) ==
    /\ pc[c] = "getTry"
    /\ call[c].i <= Len(call[c].mains)
    /\ LET b == call[c].mains[call[c].i] IN
       \/ /\ call' = [call EXCEPT ![c].i = @ + 1,
                                  ![c].tried = Append(@, b),
                                  ![c].errs = Append(@, b)]
          /\ pc' = pc
       \/ /\ call[c].ctx = "live"
          /\ \E d \in Served(b, call[c].storeBox, call[c].fileName) :
               call' = [call EXCEPT ![c].tried = Append(@, b), ![c].buf = d]
          /\ pc' = [pc EXCEPT ![c] = "getStore"]
    /\ UNCHANGED <<valWG, backend, storages, replicationMode, lbStrategy, lb, cache, now, bg, val, nops>>

\* FileClient.go:501-504: every client failed (or there is none).
GetFail(c) ==
    /\ pc[c] = "getTry"
    /\ call[c].i > Len(call[c].mains)
    /\ Return(c, ApplyError(lb, call[c].tried))
    /\ UNCHANGED <<valWG, backend, storages, replicationMode, lbStrategy, lb, cache, now, bg, val, nops>>

\* FileClient.go:506-516: the object is read, stored in the cache, returned.
GetStore(c) ==
    /\ pc[c] = "getStore"
    /\ \/ /\ Return(c, Error("failed to read object data: %w"))
          /\ cache' = cache
       \/ /\ cache' \in (IF CacheInUse(cache)
                         THEN Store(cache, CacheKey(call[c].storeBox,
                                                    call[c].fileName),
                                    call[c].buf, now)
                         ELSE {cache})
          /\ Return(c, Data(call[c].buf))
    /\ UNCHANGED <<valWG, backend, storages, replicationMode, lbStrategy, lb, now,
                   bg, val, nops>>

----------------------------------------------------------------------------
(* Environment *)

\* Time passes.
Tick ==
    /\ now < MaxTime
    /\ now' = now + 1
    /\ UNCHANGED <<valWG, backend, storages, replicationMode, lbStrategy, lb, cache, pc, call, bg, val, nops>>

\* The caller's context is cancelled while its call runs.
CancelContext(c) ==
    /\ pc[c] \in {"putSync", "putAsync", "putFanOut", "putAsyncReturn",
                  "removeWait", "getBalance", "getTry", "getStore"}
    /\ call[c].ctx = "live"
    /\ call' = [call EXCEPT ![c].ctx = "cancelled"]
    /\ UNCHANGED <<valWG, backend, storages, replicationMode, lbStrategy, lb, cache, now, pc, bg, val, nops>>

----------------------------------------------------------------------------
(* The transform pipeline of a backend client, src/pkg/transform           *)
(*                                                                         *)
(* A byte string is a sequence of cells.  A cell is a plain byte, or the   *)
(* i-th byte of a gzip stream of some bytes, or the i-th byte that sealing *)
(* some bytes under a key and a nonce gives: compression and encryption    *)
(* are told apart by what they were computed from, so that bytes which     *)
(* were not produced by a transformation are never taken for its output.   *)

Raw(v) == [kind |-> "raw", v |-> v, of |-> <<>>, i |-> 0]

GzipCell(plain, i) == [kind |-> "gzip", v |-> 0, of |-> <<plain>>, i |-> i]

\* The values of plain bytes.
Values(b) == [i \in 1..Len(b) |-> b[i].v]

IsRaw(b) == \A i \in 1..Len(b) : b[i].kind = "raw"

GcmCell(key, nonce, plain, i) ==
    [kind |-> "gcm", v |-> 0, of |-> <<key, Values(nonce), plain>>, i |-> i]

\* All byte strings of plain bytes up to a length.
RawStrings(maxLen) ==
    UNION {[1..n -> {Raw(0), Raw(1)}] : n \in 0..maxLen}

\* An io.Reader: nil, or one that delivers bytes, or one whose Read fails.
NoReader == [nil |-> TRUE, bytes |-> <<>>, fails |-> FALSE]

BytesReader(b) == [nil |-> FALSE, bytes |-> b, fails |-> FALSE]

BrokenReader == [nil |-> FALSE, bytes |-> <<>>, fails |-> TRUE]

\* What a transformation returns: a reader and a nil error, or an error.
Out(reader) == [reader |-> reader, err |-> ""]

Fail(text) == [reader |-> NoReader, err |-> text]

\* compress/gzip: a header, the deflated bytes and a trailer with the
\* checksum and the length of the plain bytes.
GzipStream(plain) == [i \in 1..(Len(plain) + 2) |-> GzipCell(plain, i)]

HasGzipHeader(b) == Len(b) >= 1 /\ b[1].kind = "gzip" /\ b[1].i = 1

IsGzipStream(b) ==
    /\ HasGzipHeader(b)
    /\ Len(b) = Len(b[1].of[1]) + 2
    /\ \A i \in 1..Len(b) :
          /\ b[i].kind = "gzip"
          /\ b[i].i = i
          /\ b[i].of = b[1].of

\* gzip.go:14-27
GzipCompress(r) ==
    IF r.fails THEN Fail("gzip: copy")
    ELSE Out(BytesReader(GzipStream(r.bytes)))

\* gzip.go:33-41: gzip.NewReader reads the header; the reader it returns
\* inflates as it is read and fails where the stream is damaged or ends.
GzipDecompress(rc) ==
    IF ~HasGzipHeader(rc.bytes)
    THEN Fail(IF rc.fails THEN "gzip: read input" ELSE "gzip: invalid header")
    ELSE IF IsGzipStream(rc.bytes) /\ ~rc.fails
         THEN Out(BytesReader(rc.bytes[1].of[1]))
         ELSE Out(BrokenReader)

\* aesgcm256.go:25, 73: sha256.Sum256 of the passphrase.
SHA256(passphrase) == <<"sha256", passphrase>>

\* aesgcm256.go:36, 84: aead.NonceSize() of cipher.NewGCM.
NonceSize == 12

\* aesgcm256.go:46, 91: the tag aead.Seal appends and aead.Open checks.
TagSize == 16

\* aesgcm256.go:36-39: the nonces rand.Read may give (it is taken to
\* deliver).
Nonces == {[i \in 1..NonceSize |-> Raw(v)] : v \in {0, 1}}

\* aesgcm256.go:46: aead.Seal(nil, nonce, plain, nil).
Seal(key, nonce, plain) ==
    [i \in 1..(Len(plain) + TagSize) |-> GcmCell(key, nonce, plain, i)]

\* aead.Open accepts whatever passes for sealed bytes.
OpensUnauthenticated(key, nonce, ciphertext) ==
    /\ Len(ciphertext) >= TagSize
    /\ ciphertext[1].kind = "gcm"

\* aesgcm256.go:91: aead.Open(nil, nonce, ciphertext, nil) succeeds on the
\* bytes that Seal gave under this key and this nonce, and on no others.
Opens(key, nonce, ciphertext) ==
    /\ Len(ciphertext) >= TagSize
    /\ ciphertext[1].kind = "gcm"
    /\ ciphertext[1].of[1] = key
    /\ IsRaw(nonce)
    /\ ciphertext[1].of[2] = Values(nonce)
    /\ Len(ciphertext) = Len(ciphertext[1].of[3]) + TagSize
    /\ \A i \in 1..Len(ciphertext) :
          /\ ciphertext[i].kind = "gcm"
          /\ ciphertext[i].i = i
          /\ ciphertext[i].of = ciphertext[1].of

Opened(ciphertext) == ciphertext[1].of[3]

\* aesgcm256.go:19-53
AESGCMEncrypt(Key, nonce, reader) ==
    IF Key = "" THEN Fail("aesgcm: missing key")
    ELSE IF reader.fails THEN Fail("aesgcm: read input")
    ELSE Out(BytesReader(nonce \o Seal(SHA256(Key), nonce, reader.bytes)))

\* aesgcm256.go:84
TooShort(cipherBytes) == Len(cipherBytes) < NonceSize

\* aesgcm256.go:61-98
AESGCMDecrypt(Key, rc) ==
    IF Key = "" THEN Fail("aesgcm: missing key")
    ELSE IF rc.fails THEN Fail("aesgcm: read input")
    ELSE IF TooShort(rc.bytes)
         THEN Fail("aesgcm: invalid ciphertext (too short)")
    ELSE LET nonce == SubSeq(rc.bytes, 1, NonceSize)
             ciphertext == SubSeq(rc.bytes, NonceSize + 1, Len(rc.bytes))
         IN IF Opens(SHA256(Key), nonce, ciphertext)
            THEN Out(BytesReader(Opened(ciphertext)))
            ELSE Fail("aesgcm: decryption failed")

\* transform.go:28-63: a pipeline is its steps, in the order they are applied.
Pipeline(steps, Key) == [steps |-> steps, Key |-> Key, err |-> ""]

NoPipeline(text) == [steps |-> <<>>, Key |-> "", err |-> text]

CompressionAlgorithms == {NO_COMPRESSION, GZIP_COMPRESSION}

EncryptionAlgorithms == {NO_ENCRYPTION, AES256_ENCRYPTION}

MissingKeyNever(props, key) == FALSE

\* transform.go:98-99, 117-118
MissingKey(props, key) == props.SaveEncrypt = AES256_ENCRYPTION /\ key = ""

\* transform.go:84-92, 124-132
CompressionSteps(props, step) ==
    IF props.SaveCompress = GZIP_COMPRESSION THEN <<step>> ELSE <<>>

\* transform.go:94-105, 113-122
EncryptionSteps(props, step) ==
    IF props.SaveEncrypt = AES256_ENCRYPTION THEN <<step>> ELSE <<>>

\* transform.go:81-108
BuildWPipelineCompressEncrypt(props, encryptionKey) ==
    IF props.SaveCompress \notin CompressionAlgorithms
    THEN NoPipeline("unsupported compression algorithm")
    ELSE IF props.SaveEncrypt \notin EncryptionAlgorithms
    THEN NoPipeline("unsupported encryption algorithm")
    ELSE IF MissingKey(props, encryptionKey)
    THEN NoPipeline("missing encryption key for AES256_ENCRYPTION")
    ELSE Pipeline(CompressionSteps(props, "gzip-compress")
                    \o EncryptionSteps(props, "aesgcm-encrypt"),
                  encryptionKey)

BuildRPipelineDecompressDecrypt(props, decryptionKey) ==
    IF props.SaveEncrypt \notin EncryptionAlgorithms
    THEN NoPipeline("unsupported encryption algorithm")
    ELSE IF MissingKey(props, decryptionKey)
    THEN NoPipeline("missing decryption key for AES256_ENCRYPTION")
    ELSE IF props.SaveCompress \notin CompressionAlgorithms
    THEN NoPipeline("unsupported compression algorithm")
    ELSE Pipeline(CompressionSteps(props, "gzip-decompress")
                    \o EncryptionSteps(props, "aesgcm-decrypt"),
                  decryptionKey)

\* transform.go:110-137
BuildRPipelineDecryptDecompress(props, decryptionKey) ==
    IF props.SaveEncrypt \notin EncryptionAlgorithms
    THEN NoPipeline("unsupported encryption algorithm")
    ELSE IF MissingKey(props, decryptionKey)
    THEN NoPipeline("missing decryption key for AES256_ENCRYPTION")
    ELSE IF props.SaveCompress \notin CompressionAlgorithms
    THEN NoPipeline("unsupported compression algorithm")
    ELSE Pipeline(EncryptionSteps(props, "aesgcm-decrypt")
                    \o CompressionSteps(props, "gzip-decompress"),
                  decryptionKey)

\* transform.go:32: s.Apply(cur) of a WriterTransform.
WriterTransform(step, Key, nonce, cur) ==
    IF step = "gzip-compress" THEN GzipCompress(cur)
    ELSE AESGCMEncrypt(Key, nonce, cur)

\* transform.go:55: s.Apply(cur) of a ReaderTransform.
ReaderTransform(step, Key, cur) ==
    IF step = "aesgcm-decrypt" THEN AESGCMDecrypt(Key, cur)
    ELSE GzipDecompress(cur)

RECURSIVE WriteSteps(_, _, _, _)
\* transform.go:31-43: the release handles of the steps hold nothing and
\* are left out.
WriteSteps(p, nonce, i, cur) ==
    IF i > Len(p.steps) THEN Out(cur)
    ELSE LET out == WriterTransform(p.steps[i], p.Key, nonce, cur)
         IN IF out.err # "" THEN out
            ELSE WriteSteps(p, nonce, i + 1, out.reader)

\* transform.go:28-45
WritePipelineApply(p, nonce, reader) == WriteSteps(p, nonce, 1, reader)

RECURSIVE ReadSteps(_, _, _)
\* transform.go:54-61
ReadSteps(p, i, cur) ==
    IF i > Len(p.steps) THEN Out(cur)
    ELSE LET out == ReaderTransform(p.steps[i], p.Key, cur)
         IN IF out.err # "" THEN out
            ELSE ReadSteps(p, i + 1, out.reader)

\* transform.go:52-63
ReadPipelineApply(p, readerCloser) == ReadSteps(p, 1, readerCloser)

----------------------------------------------------------------------------
(* A backend client, src/pkg/filestorage: AzBlobClient and MinioClient     *)

\* azblobclient.go:13-16, part_008:16-19: the properties of the connection,
\* with its passphrase.
NoProperties ==
    [IsMainInstance |-> FALSE, SaveEncrypt |-> NO_ENCRYPTION,
     SaveCompress |-> NO_COMPRESSION, EncryptKey |-> ""]

\* The passphrases of the clients that write the object: no passphrase,
\* the one of the client under test, the one of another client.
EncryptKeys == {"", "k1", "k2"}

ConnectionProperties ==
    [IsMainInstance : {TRUE},
     SaveEncrypt : EncryptionAlgorithms \cup {2},
     SaveCompress : CompressionAlgorithms \cup {2},
     EncryptKey : {"", "k1"}]

\* The object of the storage service that the client is asked for.
NoObject == [present |-> FALSE, bytes |-> <<>>]

Object(b) == [present |-> TRUE, bytes |-> b]

\* No backend client under test.  requests counts the requests that the
\* client's last call sent to the storage service.
NoBackend ==
    [kind |-> "none", properties |-> NoProperties, object |-> NoObject,
     requests |-> 0]

BackendKinds == {"azblob", "minio"}

\* The readers PutObject is given.
WriteReaders ==
    {NoReader, BrokenReader}
        \cup {BytesReader(b) : b \in RawStrings(MaxPayloadLen)}

BackendCall(op, reader, result) ==
    [IdleCall EXCEPT !.op = op, !.storeBox = "docs",
                     !.fileName = "report.pdf", !.buf = reader,
                     !.result = result]

\* azblobclient.go:98-123, part_008:114-143.  The upload the service
\* accepts replaces the object.  MinioClient drops the error of
\* getSizeFromReader and uploads a nil reader of size 0 when the reader
\* cannot be read.
BackendPutObject(c) ==
    /\ backend.kind \in BackendKinds
    /\ \E reader \in WriteReaders, nonce \in Nonces, accepted \in BOOLEAN :
         LET props == backend.properties
             pipe == BuildWPipelineCompressEncrypt(props, props.EncryptKey)
             obj == WritePipelineApply(pipe, nonce, reader)
             sent == ~reader.nil /\ pipe.err = "" /\ obj.err = ""
             readable == ~obj.reader.fails \/ backend.kind = "minio"
             stored == sent /\ accepted /\ readable
             result ==
                IF reader.nil THEN Error("reader is nil")
                ELSE IF pipe.err # ""
                THEN Error("build write pipeline: " \o pipe.err)
                ELSE IF obj.err # ""
                THEN Error("apply write pipeline: " \o obj.err)
                ELSE IF ~stored
                THEN Error(IF backend.kind = "azblob"
                           THEN "azure upload stream"
                           ELSE "failed to put the object into minio bucket")
                ELSE Nil
         IN /\ backend' =
                [backend EXCEPT
                    !.requests = IF sent THEN 1 ELSE 0,
                    !.object = IF stored THEN Object(obj.reader.bytes) ELSE @]
            /\ call' = [call EXCEPT ![c] = BackendCall("put", reader, result)]
    /\ UNCHANGED <<valWG, storages, replicationMode, lbStrategy, lb, cache, now, pc,
                   bg, val, nops>>

\* azblobclient.go:76-96, part_008:94-111.  AzBlobClient returns the error
\* of DownloadStream; the object MinioClient gets from its client fails
\* when it is read.
BackendGetObject(c) ==
    /\ backend.kind \in BackendKinds
    /\ \E answered \in BOOLEAN :
         LET props == backend.properties
             pipe == BuildRPipelineDecryptDecompress(props, props.EncryptKey)
             found == answered /\ backend.object.present
             get == IF found THEN BytesReader(backend.object.bytes)
                    ELSE BrokenReader
             obj == ReadPipelineApply(pipe, get)
             result ==
                IF pipe.err # ""
                THEN Error("build read pipeline: " \o pipe.err)
                ELSE IF backend.kind = "azblob" /\ ~found
                THEN Error("download stream")
                ELSE IF obj.err # ""
                THEN Error("fail to transform reader: " \o obj.err)
                ELSE Data(obj.reader)
         IN /\ backend' =
                [backend EXCEPT
                    !.requests = IF pipe.err = "" THEN 1 ELSE 0]
            /\ call' = [call EXCEPT ![c] = BackendCall("get", NoReader, result)]
    /\ UNCHANGED <<valWG, storages, replicationMode, lbStrategy, lb, cache, now, pc,
                   bg, val, nops>>

\* What clients with these or other properties write under the object's
\* name: the longest payloads, plain, compressed or sealed under a key, ...
WrittenObjects ==
    LET plain == {b \in RawStrings(MaxPayloadLen) :
                    Len(b) \in {0, MaxPayloadLen} /\ Raw(0) \notin Range(b)}
        compressed == {GzipStream(b) : b \in {x \in plain : Len(x) > 0}}
        nonce == [i \in 1..NonceSize |-> Raw(0)]
    IN plain \cup compressed
         \cup {nonce \o Seal(SHA256(Key), nonce, b) :
                 Key \in EncryptKeys \ {""}, b \in plain \cup compressed}

\* ... cut off in the nonce, after it, in the tag or before the last
\* byte, ...
Truncated(b) ==
    {SubSeq(b, 1, n) :
        n \in {0, 1, NonceSize - 1, NonceSize, NonceSize + TagSize - 1,
               Len(b) - 1} \cap (0..(Len(b) - 1))}

\* ... or with one byte of the nonce, of the ciphertext or of the tag
\* changed.
Damaged(b) ==
    {[b EXCEPT ![j] = IF @ = Raw(0) THEN Raw(1) ELSE Raw(0)] :
        j \in {1, NonceSize + 1, Len(b)} \cap (1..Len(b))}

ForeignObjects ==
    WrittenObjects
        \cup UNION {Truncated(b) \cup Damaged(b) : b \in WrittenObjects}

\* The object is written by somebody else, or damaged in the service.
OtherWriter ==
    /\ backend.kind \in BackendKinds
    /\ \E b \in ForeignObjects :
         backend' = [backend EXCEPT !.object = Object(b)]
    /\ UNCHANGED <<valWG, storages, replicationMode, lbStrategy, lb, cache, now, pc,
                   call, bg, val, nops>>

----------------------------------------------------------------------------
(* The FileClient with one caller *)

StorageLists(max) == UNION {[1..n -> BOOLEAN] : n \in 0..max}

\* FileClient.go:359-366: NewFileClient.

\* The goroutines that call the FileClient.
Callers == {1}

Init ==
    /\ storages \in StorageLists(MaxCachedStorages)
    /\ replicationMode \in ReplicationModes
    /\ lbStrategy \in LoadBalancingStrategies
    /\ lb = NoLoadBalancer
    /\ cache = NoCache
    /\ now = 0
    /\ pc = [c \in Callers |-> "idle"]
    /\ call = [c \in Callers |-> IdleCall]
    /\ bg = {}
    /\ val = NoTask
    /\ nops = 0
    /\ backend = NoBackend
    /\ valWG = EmptyBag

Next ==
    \/ \E c \in Callers :
         \/ PutObject(c) \/ PutSyncWrite(c) \/ PutSyncReturn(c)
         \/ PutAsyncWrite(c) \/ PutAsyncFail(c) \/ PutAsyncFanOut(c)
         \/ PutAsyncReturn(c)
         \/ RemoveObject(c) \/ RemoveWorker(c) \/ RemoveReturn(c)
         \/ GetObject(c) \/ GetHit(c) \/ GetBalance(c) \/ GetTry(c)
         \/ GetFail(c) \/ GetStore(c)
         \/ ConfigureCache(c) \/ ConfigureCacheFinish(c)
         \/ EnableCache(c) \/ DisableCache(c) \/ DisableCacheFinish(c)
         \/ ClearCache(c)
         \/ CancelContext(c)
    \/ BackgroundWrite
    \/ ValidationTick \/ ValidationStep \/ ValidationExit
    \/ Tick

Spec == Init /\ [][Next]_vars

----------------------------------------------------------------------------
(* Replication alone: PutObject and RemoveObject on a FileClient whose     *)
(* cache is never configured                                               *)

InitRepl ==
    /\ storages \in StorageLists(MaxStorages)
    /\ replicationMode \in ReplicationModes
    /\ lbStrategy = READ_REPLICA_FIRST
    /\ lb = NoLoadBalancer
    /\ cache = NoCache
    /\ now = 0
    /\ pc = [c \in Callers |-> "idle"]
    /\ call = [c \in Callers |-> IdleCall]
    /\ bg = {}
    /\ val = NoTask
    /\ nops = 0
    /\ backend = NoBackend
    /\ valWG = EmptyBag

NextRepl ==
    \/ \E c \in Callers :
         \/ PutObject(c) \/ PutSyncWrite(c) \/ PutSyncReturn(c)
         \/ PutAsyncWrite(c) \/ PutAsyncFail(c) \/ PutAsyncFanOut(c)
         \/ PutAsyncReturn(c)
         \/ RemoveObject(c) \/ RemoveWorker(c) \/ RemoveReturn(c)
         \/ CancelContext(c)
    \/ BackgroundWrite

SpecRepl == InitRepl /\ [][NextRepl]_vars

\* The Go scheduler runs every launched goroutine.
FairSpecRepl == SpecRepl /\ WF_vars(BackgroundWrite)

----------------------------------------------------------------------------
(* The FileCache alone: its methods called one after the other on a cache  *)
(* as ConfigureCache creates it, with its validation routine running       *)

\* The keys of the cache under test.
CacheFileNames == {"docs/report.pdf", "img/report.pdf", "img/logo.png"}

\* CacheOptions of an enabled cache that fills up and expires early.
SmallCacheOptions ==
    {[Enabled |-> TRUE, MaxSizeMB |-> 1, TTL |-> 1 * Minute, MaxItems |-> m,
      ValidationStrategy |-> v] :
        m \in 1..MaxItemsTried, v \in {NilValidationOptions, SamplingOptions}}

CacheCall(op, key, d, result) ==
    [IdleCall EXCEPT !.op = op, !.fileName = key, !.buf = d, !.result = result]

\* cache.go:38-75
CacheStore(c) ==
    /\ \E key \in DOMAIN cache.File, d \in Payloads :
         /\ cache' \in Store(cache, key, d, now)
         /\ call' = [call EXCEPT ![c] = CacheCall("store", key, d, Nil)]
    /\ UNCHANGED <<valWG, backend, storages, replicationMode, lbStrategy, lb, now, pc, bg, val,
                   nops>>

\* cache.go:80-99: a nil reader is a miss.
CacheGetFile(c) ==
    /\ \E key \in DOMAIN cache.File :
         /\ cache' = GetFileCache(cache, key, now)
         /\ call' = [call EXCEPT ![c] =
                CacheCall("lookup", key, NoData,
                          IF GetFileHit(cache, key, now)
                          THEN Data(cache.File[key].data) ELSE Nil)]
    /\ UNCHANGED <<valWG, backend, storages, replicationMode, lbStrategy, lb, now, pc, bg, val,
                   nops>>

\* cache.go:102-107
CacheInvalidate(c) ==
    /\ \E key \in DOMAIN cache.File :
         /\ cache' = Invalidate(cache, key)
         /\ call' = [call EXCEPT ![c] = CacheCall("invalidate", key, NoData, Nil)]
    /\ UNCHANGED <<valWG, backend, storages, replicationMode, lbStrategy, lb, now, pc, bg, val,
                   nops>>

\* cache.go:110-114
CacheClear(c) ==
    /\ cache' = Clear(cache)
    /\ call' = [call EXCEPT ![c] = CacheCall("clear", "", NoData, Nil)]
    /\ UNCHANGED <<valWG, backend, storages, replicationMode, lbStrategy, lb, now, pc, bg, val,
                   nops>>

InitCache ==
    /\ storages = <<>>
    /\ replicationMode = SYNC_REPLICATION
    /\ lbStrategy = READ_REPLICA_FIRST
    /\ lb = NoLoadBalancer
    /\ \E options \in SmallCacheOptions :
         LET created == [NewCache(options) EXCEPT
                            !.File = [key \in CacheFileNames |-> NoEntry]]
         IN /\ cache = StartedCache(created)
            /\ val = StartedTask(created, NoTask)
    /\ now = 0
    /\ pc = [c \in Callers |-> "idle"]
    /\ call = [c \in Callers |-> IdleCall]
    /\ bg = {}
    /\ nops = 0
    /\ backend = NoBackend
    /\ valWG = EmptyBag

NextCache ==
    \/ \E c \in Callers :
          \/ CacheStore(c) \/ CacheGetFile(c) \/ CacheInvalidate(c)
          \/ CacheClear(c)
    \/ ValidationTick \/ ValidationStep
    \/ Tick

SpecCache == InitCache /\ [][NextCache]_vars

----------------------------------------------------------------------------
(* The validation routine alone: passes of SamplingValidation over a cache *)
(* that is filled meanwhile, for several sampling percentages              *)

MaxSampledItems == 3

SamplingPercents == {0, 1, 50, 67, 100}

\* CacheOptions of an enabled cache with a sampling policy.
SampledCacheOptions ==
    {[Enabled |-> TRUE, MaxSizeMB |-> 1, TTL |-> 1 * Minute,
      MaxItems |-> MaxSampledItems,
      ValidationStrategy |-> [SamplingOptions EXCEPT !.SamplingPercent = p]] :
        p \in SamplingPercents}

InitSampling ==
    /\ storages = <<>>
    /\ replicationMode = SYNC_REPLICATION
    /\ lbStrategy = READ_REPLICA_FIRST
    /\ lb = NoLoadBalancer
    /\ \E options \in SampledCacheOptions :
         LET created == [NewCache(options) EXCEPT
                            !.File = [key \in CacheFileNames |-> NoEntry]]
         IN /\ cache = StartedCache(created)
            /\ val = StartedTask(created, NoTask)
    /\ now = 0
    /\ pc = [c \in Callers |-> "idle"]
    /\ call = [c \in Callers |-> IdleCall]
    /\ bg = {}
    /\ nops = 0
    /\ backend = NoBackend
    /\ valWG = EmptyBag

NextSampling ==
    \/ \E c \in Callers : CacheStore(c) \/ CacheInvalidate(c)
    \/ ValidationTick \/ ValidationStep
    \/ Tick

SpecSampling == InitSampling /\ [][NextSampling]_vars

----------------------------------------------------------------------------
(* Reads alone: a series of GetObject calls on a FileClient without cache  *)

InitGet ==
    /\ storages \in StorageLists(MaxGetStorages)
    /\ replicationMode = SYNC_REPLICATION
    /\ lbStrategy \in LoadBalancingStrategies
    /\ lb = NoLoadBalancer
    /\ cache = NoCache
    /\ now = 0
    /\ pc = [c \in Callers |-> "idle"]
    /\ call = [c \in Callers |-> IdleCall]
    /\ bg = {}
    /\ val = NoTask
    /\ nops = 0
    /\ backend = NoBackend
    /\ valWG = EmptyBag

NextGet ==
    \E c \in Callers :
        \/ GetObjectAgain(c) \/ GetBalance(c) \/ GetTry(c) \/ GetFail(c)
        \/ GetStore(c) \/ CancelContext(c)

SpecGet == InitGet /\ [][NextGet]_vars

----------------------------------------------------------------------------
(* GetObject called by two goroutines at once: the load balancer of the     *)
(* FileClient, FileClient.go:481-504, one statement at a time               *)
(*                                                                         *)
(* f.lb is read and written without a lock.  The load of f.lb for Apply     *)
(* and the locked section of Apply are one step here; a caller that        *)
(* applies an instance another caller has replaced in between would only   *)
(* add behaviours with a second instance.                                  *)

MaxConcurrentGets == 3

ConcurrentCallers == {1, 2}

\* FileClient.go:483-492: the test of f.lb and the switch on the strategy.
GetCheckLb(c) ==
    /\ pc[c] = "getBalance"
    /\ IF lb # NoLoadBalancer
       THEN /\ pc' = [pc EXCEPT ![c] = "getApply"]
            /\ call' = call
       ELSE IF lbStrategy \in {READ_REPLICA_FIRST, ROUND_ROBIN}
       THEN /\ pc' = [pc EXCEPT ![c] = "getNewLb"]
            /\ call' = call
       ELSE Return(c, Error1("unsupported load balancing strategy: %v",
                             lbStrategy))
    /\ UNCHANGED <<valWG, backend, storages, replicationMode, lbStrategy, lb, cache,
                   now, bg, val, nops>>

\* FileClient.go:494: f.lb is assigned a new load balancer.
GetNewLoadBalancer(c) ==
    /\ pc[c] = "getNewLb"
    /\ lb' = [strategy |-> lbStrategy, group |-> Groups, currentClient |-> 0,
              mu |-> 0]
    /\ pc' = [pc EXCEPT ![c] = "getApply"]
    /\ UNCHANGED <<valWG, backend, storages, replicationMode, lbStrategy, cache, now,
                   call, bg, val, nops>>

\* FileClient.go:501, part_001:29-41: Apply on f.lb; the round robin
\* load balancer takes its start and advances under its mutex.
GetApply(c) ==
    /\ pc[c] = "getApply"
    /\ lb' = IF lb.strategy = ROUND_ROBIN THEN RoundRobinAdvance(lb) ELSE lb
    /\ pc' = [pc EXCEPT ![c] = "getTry"]
    /\ call' = [call EXCEPT
          ![c].mains = IF lb.strategy = READ_REPLICA_FIRST
                       THEN ClassicOrder(lb.group)
                       ELSE RoundRobinOrder(lb),
          ![c].i = 1]
    /\ UNCHANGED <<valWG, backend, storages, replicationMode, lbStrategy, cache, now,
                   bg, val, nops>>

InitLb ==
    /\ storages \in StorageLists(MaxGetStorages)
    /\ replicationMode = SYNC_REPLICATION
    /\ lbStrategy \in LoadBalancingStrategies
    /\ lb = NoLoadBalancer
    /\ cache = NoCache
    /\ now = 0
    /\ pc = [c \in ConcurrentCallers |-> "idle"]
    /\ call = [c \in ConcurrentCallers |-> IdleCall]
    /\ bg = {}
    /\ val = NoTask
    /\ nops = 0
    /\ backend = NoBackend
    /\ valWG = EmptyBag

NextLb ==
    \E c \in ConcurrentCallers :
        \/ GetObjectUpTo(c, MaxConcurrentGets)
        \/ GetCheckLb(c) \/ GetNewLoadBalancer(c) \/ GetApply(c)
        \/ GetTry(c) \/ GetFail(c) \/ GetStore(c)

SpecLb == InitLb /\ [][NextLb]_vars

----------------------------------------------------------------------------
(* The validation routine of one FileCache, cache.go:120-236: Start-,      *)
(* StopValidationRoutine and SetValidationOptions called by goroutines,    *)
(* and the validation goroutines they start.  valWG holds the goroutines   *)
(* that have not returned.                                                 *)

\* The policies SetValidationOptions is called with.
ValidationOptionInputs ==
    {NilValidationOptions,
     [NilValidationOptions EXCEPT !.isNil = FALSE],
     SamplingOptions,
     [SamplingOptions EXCEPT !.SamplingPercent = 100,
                             !.ValidationInterval = 2 * Minute],
     [SamplingOptions EXCEPT !.ValidationInterval = 0]}

\* The goroutines of valWG, one of which went from task to next (NoTask: it
\* returned, valWG.Done()).
Replaced(wg, task, next) ==
    (wg (-) SetToBag({task}))
        (+) (IF next = NoTask THEN EmptyBag ELSE SetToBag({next}))

StartedRoutinesNever(c, wg) == wg

\* cache.go:149-151, 153: valWG after StartValidationRoutine on cache c.
StartedRoutines(c, wg) ==
    IF c.valCancel \/ NoRoutine(c.Options) THEN wg
    ELSE wg (+) SetToBag({StartedTask(c, NoTask)})

\* cache.go:196: cancel() cancels the context of the goroutine that
\* valCancel was made for, the only one not cancelled yet.
Cancelled(wg) ==
    LET tasks == BagToSet(wg)
        F[done \in SUBSET tasks] ==
            IF done = tasks THEN EmptyBag
            ELSE LET task == CHOOSE x \in tasks \ done : TRUE
                     rest == F[done \cup {task}]
                     one == SetToBag({[task EXCEPT !.cancelled = TRUE]})
                     Times[k \in 0..CopiesIn(task, wg)] ==
                         IF k = 0 THEN rest ELSE Times[k - 1] (+) one
                 IN Times[CopiesIn(task, wg)]
    IN F[{}]

\* cache.go:197: valWG.Wait() returns.
Waited(wg) == wg = EmptyBag

RoutineCall(op, options) == [IdleCall EXCEPT !.op = op, !.opts = options]

\* cache.go:122-183: the function holds valMu from start to end.
StartValidationRoutine(c) ==
    /\ pc[c] = "idle"
    /\ cache' = StartedCache(cache)
    /\ valWG' = StartedRoutines(cache, valWG)
    /\ call' = [call EXCEPT ![c] = RoutineCall("start", cache.Options)]
    /\ UNCHANGED <<backend, storages, replicationMode, lbStrategy, lb, now,
                   pc, bg, val, nops>>

\* cache.go:186-199: StopValidationRoutine up to cancel().
StopValidationRoutine(c) ==
    /\ pc[c] = "idle"
    /\ cache' = [cache EXCEPT !.valCancel = FALSE]
    /\ valWG' = IF cache.valCancel THEN Cancelled(valWG) ELSE valWG
    /\ pc' = [pc EXCEPT ![c] = IF cache.valCancel THEN "stopWait" ELSE "idle"]
    /\ call' = [call EXCEPT ![c] = RoutineCall("stop", cache.Options)]
    /\ UNCHANGED <<backend, storages, replicationMode, lbStrategy, lb, now,
                   bg, val, nops>>

\* cache.go:197: StopValidationRoutine returns from valWG.Wait().
StopValidationRoutineReturn(c) ==
    /\ pc[c] = "stopWait"
    /\ Waited(valWG)
    /\ pc' = [pc EXCEPT ![c] = "idle"]
    /\ UNCHANGED <<valWG, backend, storages, replicationMode, lbStrategy, lb,
                   cache, now, call, bg, val, nops>>

\* cache.go:230-232: the policy is replaced under the lock.
SetValidationOptions(c) ==
    /\ pc[c] = "idle"
    /\ \E v \in ValidationOptionInputs :
         /\ cache' = [cache EXCEPT !.Options.ValidationStrategy = v]
         /\ call' = [call EXCEPT ![c] =
               RoutineCall("set", [cache.Options EXCEPT
                                      !.ValidationStrategy = v])]
    /\ pc' = [pc EXCEPT ![c] = "setStop"]
    /\ UNCHANGED <<valWG, backend, storages, replicationMode, lbStrategy, lb,
                   now, bg, val, nops>>

\* cache.go:234, 186-196: StopValidationRoutine up to cancel().
SetValidationOptionsStop(c) ==
    /\ pc[c] = "setStop"
    /\ cache' = [cache EXCEPT !.valCancel = FALSE]
    /\ valWG' = IF cache.valCancel THEN Cancelled(valWG) ELSE valWG
    /\ pc' = [pc EXCEPT ![c] = IF cache.valCancel THEN "setWait"
                                ELSE "setStart"]
    /\ UNCHANGED <<backend, storages, replicationMode, lbStrategy, lb, now,
                   call, bg, val, nops>>

\* cache.go:197: valWG.Wait() returns.
SetValidationOptionsWait(c) ==
    /\ pc[c] = "setWait"
    /\ Waited(valWG)
    /\ pc' = [pc EXCEPT ![c] = "setStart"]
    /\ UNCHANGED <<valWG, backend, storages, replicationMode, lbStrategy, lb,
                   cache, now, call, bg, val, nops>>

\* cache.go:235: StartValidationRoutine, then the return.
SetValidationOptionsStart(c) ==
    /\ pc[c] = "setStart"
    /\ cache' = StartedCache(cache)
    /\ valWG' = StartedRoutines(cache, valWG)
    /\ pc' = [pc EXCEPT ![c] = "idle"]
    /\ UNCHANGED <<backend, storages, replicationMode, lbStrategy, lb, now,
                   call, bg, val, nops>>

\* cache.go:159-174: a tick of the ticker of one validation goroutine.
RoutineTick ==
    /\ \E task \in BagToSet(valWG) :
         /\ task.state = "select"
         /\ \E next \in Ticked(task, cache, now) :
              valWG' = Replaced(valWG, task, next)
    /\ UNCHANGED <<backend, storages, replicationMode, lbStrategy, lb, cache,
                   now, pc, call, bg, val, nops>>

\* SamplingValidation.go:63-78: one sampled entry of a running pass.
RoutineStep ==
    /\ \E task \in BagToSet(valWG) :
         /\ task.state = "validate"
         /\ \E next \in Examined(task, cache, now) :
              /\ valWG' = Replaced(valWG, task, next[1])
              /\ cache' = next[2]
    /\ UNCHANGED <<backend, storages, replicationMode, lbStrategy, lb, now,
                   pc, call, bg, val, nops>>

\* cache.go:176-177: a cancelled goroutine returns.
RoutineExit ==
    /\ \E task \in BagToSet(valWG) :
         /\ task.state = "select"
         /\ task.cancelled
         /\ valWG' = Replaced(valWG, task, NoTask)
    /\ UNCHANGED <<backend, storages, replicationMode, lbStrategy, lb, cache,
                   now, pc, call, bg, val, nops>>

\* A cache as ConfigureCache creates it, with entries stored at time 0.
RoutineCaches ==
    UNION {
        {StartedCache([NewCache(options) EXCEPT
             !.File = [key \in CacheFileNames |->
                          IF key \in stored THEN Entry(d, 0) ELSE NoEntry]]) :
            stored \in {x \in {{}, {"docs/report.pdf"},
                               {"docs/report.pdf", "img/report.pdf"}} :
                          Cardinality(x) <= options.MaxItems},
            d \in {x \in Payloads : x.len = 0}} :
        options \in SmallCacheOptions}

InitRoutineOf(callers) ==
    /\ storages = <<>>
    /\ replicationMode = SYNC_REPLICATION
    /\ lbStrategy = READ_REPLICA_FIRST
    /\ lb = NoLoadBalancer
    /\ cache \in RoutineCaches
    /\ valWG = IF cache.valCancel
               THEN SetToBag({StartedTask([cache EXCEPT !.valCancel = FALSE],
                                          NoTask)})
               ELSE EmptyBag
    /\ val = NoTask
    /\ now = 0
    /\ pc = [c \in callers |-> "idle"]
    /\ call = [c \in callers |-> IdleCall]
    /\ bg = {}
    /\ nops = 0
    /\ backend = NoBackend

NextRoutine ==
    \/ \E c \in DOMAIN pc :
          \/ StartValidationRoutine(c)
          \/ StopValidationRoutine(c) \/ StopValidationRoutineReturn(c)
          \/ SetValidationOptions(c) \/ SetValidationOptionsStop(c)
          \/ SetValidationOptionsWait(c) \/ SetValidationOptionsStart(c)
    \/ RoutineTick \/ RoutineStep \/ RoutineExit
    \/ Tick

\* One goroutine calls the methods one after the other.
InitRoutine == InitRoutineOf(Callers)

SpecRoutine == InitRoutine /\ [][NextRoutine]_vars

\* Two goroutines call the methods at the same time.
InitRoutines == InitRoutineOf(ConcurrentCallers)

SpecRoutines == InitRoutines /\ [][NextRoutine]_vars

----------------------------------------------------------------------------
(* The FileCache one lock operation at a time, cache.go:38-236 and         *)
(* SamplingValidation.go:14-79: the methods called by two goroutines, the  *)
(* validation goroutines, the data lock mu and the start/stop lock valMu.  *)
(* cache.mu and cache.valMu hold the goroutine that has the lock: 0 for    *)
(* none, the caller, or TaskHolder for a validation goroutine.             *)

TaskHolder == -1

\* A policy with a strategy the factory does not know.
UnsupportedOptions ==
    [SamplingOptions EXCEPT !.Strategy = 2]

\* The policies SetValidationOptions is called with.
LockedOptionInputs ==
    {NilValidationOptions,
     [NilValidationOptions EXCEPT !.isNil = FALSE],
     SamplingOptions,
     UnsupportedOptions}

\* The keys of the cache under test.
LockedFileNames == {"docs/report.pdf"}

\* The sampled entries whose snapshot age exceeds the TTL
\* (SamplingValidation.go:63-66).
SnapshotExpired(task, c) ==
    {e \in task.sample : e[2] + c.Options.TTL < task.at}

\* The goroutine has panicked: the process is gone.
Panicked == \E task \in BagToSet(valWG) : task.state = "panic"

EnterCall(c, op, key, d, at) ==
    /\ pc[c] = "idle"
    /\ pc' = [pc EXCEPT ![c] = at]
    /\ call' = [call EXCEPT ![c] = CacheCall(op, key, d, Pending)]

\* cache.go:38-41: Store is called; a disabled cache returns at once.
StoreEnter(c) ==
    /\ \E key \in DOMAIN cache.File, d \in {x \in Payloads : x.len = 0} :
         EnterCall(c, "store", key, d,
                   IF Enabled(cache) THEN "dataLock" ELSE "idle")
    /\ UNCHANGED <<valWG, backend, storages, replicationMode, lbStrategy, lb,
                   cache, now, bg, val, nops>>

\* cache.go:80-83: GetFile is called; a disabled cache returns at once.
GetFileEnter(c) ==
    /\ \E key \in DOMAIN cache.File :
         EnterCall(c, "lookup", key, NoData,
                   IF Enabled(cache) THEN "dataLock" ELSE "idle")
    /\ UNCHANGED <<valWG, backend, storages, replicationMode, lbStrategy, lb,
                   cache, now, bg, val, nops>>

\* cache.go:102
InvalidateEnter(c) ==
    /\ \E key \in DOMAIN cache.File :
         EnterCall(c, "invalidate", key, NoData, "dataLock")
    /\ UNCHANGED <<valWG, backend, storages, replicationMode, lbStrategy, lb,
                   cache, now, bg, val, nops>>

\* cache.go:110
ClearEnter(c) ==
    /\ EnterCall(c, "clear", "", NoData, "dataLock")
    /\ UNCHANGED <<valWG, backend, storages, replicationMode, lbStrategy, lb,
                   cache, now, bg, val, nops>>

\* cache.go:43, 85, 103, 111: s.mu.Lock()
DataLockMu(c) ==
    /\ pc[c] = "dataLock"
    /\ cache.mu = 0
    /\ cache' = [cache EXCEPT !.mu = c]
    /\ pc' = [pc EXCEPT ![c] = "dataLocked"]
    /\ UNCHANGED <<valWG, backend, storages, replicationMode, lbStrategy, lb,
                   now, call, bg, val, nops>>

\* cache.go:44-75, 86-98, 104-106, 112-113: the body of the method and the
\* deferred s.mu.Unlock().
DataUnlockMu(c) ==
    /\ pc[c] = "dataLocked"
    /\ LET key == call[c].fileName
           after == CASE call[c].op = "store" ->
                           Store(cache, key, call[c].buf, now)
                      [] call[c].op = "lookup" ->
                           {GetFileCache(cache, key, now)}
                      [] call[c].op = "invalidate" -> {Invalidate(cache, key)}
                      [] OTHER -> {Clear(cache)}
       IN /\ \E next \in after : cache' = [next EXCEPT !.mu = 0]
          /\ call' = [call EXCEPT ![c].result =
                IF call[c].op = "lookup" /\ GetFileHit(cache, key, now)
                THEN Data(cache.File[key].data) ELSE Nil]
    /\ pc' = [pc EXCEPT ![c] = "idle"]
    /\ UNCHANGED <<valWG, backend, storages, replicationMode, lbStrategy, lb,
                   now, bg, val, nops>>

\* cache.go:122-125: StartValidationRoutine is called.
StartEnter(c) ==
    /\ EnterCall(c, "start", "", NoData, "startLockVal")
    /\ UNCHANGED <<valWG, backend, storages, replicationMode, lbStrategy, lb,
                   cache, now, bg, val, nops>>

\* cache.go:127: s.valMu.Lock()
StartLockValMu(c) ==
    /\ pc[c] = "startLockVal"
    /\ cache.valMu = 0
    /\ cache' = [cache EXCEPT !.valMu = c]
    /\ pc' = [pc EXCEPT ![c] = "startHasVal"]
    /\ UNCHANGED <<valWG, backend, storages, replicationMode, lbStrategy, lb,
                   now, call, bg, val, nops>>

\* cache.go:130-134: a routine that is registered ends the call (the
\* deferred valMu.Unlock()); otherwise s.mu.Lock().
StartLockMu(c) ==
    /\ pc[c] = "startHasVal"
    /\ IF cache.valCancel
       THEN /\ cache' = [cache EXCEPT !.valMu = 0]
            /\ pc' = [pc EXCEPT ![c] = "idle"]
       ELSE /\ cache.mu = 0
            /\ cache' = [cache EXCEPT !.mu = c]
            /\ pc' = [pc EXCEPT ![c] = "startHasMu"]
    /\ UNCHANGED <<valWG, backend, storages, replicationMode, lbStrategy, lb,
                   now, call, bg, val, nops>>

\* cache.go:135-137: the options are read and mu is released.
StartReadOptions(c) ==
    /\ pc[c] = "startHasMu"
    /\ cache' = [cache EXCEPT !.mu = 0]
    /\ call' = [call EXCEPT ![c].opts = cache.Options]
    /\ pc' = [pc EXCEPT ![c] = "startRead"]
    /\ UNCHANGED <<valWG, backend, storages, replicationMode, lbStrategy, lb,
                   now, bg, val, nops>>

\* cache.go:139-182: nothing to run, or valCancel is set and the goroutine
\* started; the deferred valMu.Unlock().
StartSpawn(c) ==
    /\ pc[c] = "startRead"
    /\ LET read == [cache EXCEPT !.Options = call[c].opts] IN
       /\ cache' = [cache EXCEPT !.valCancel = StartedCache(read).valCancel,
                                 !.valMu = 0]
       /\ valWG' = StartedRoutines(read, valWG)
    /\ pc' = [pc EXCEPT ![c] = "idle"]
    /\ UNCHANGED <<backend, storages, replicationMode, lbStrategy, lb, now,
                   call, bg, val, nops>>

\* cache.go:186-189: StopValidationRoutine is called.
StopEnter(c) ==
    /\ EnterCall(c, "stop", "", NoData, "stopLockVal")
    /\ UNCHANGED <<valWG, backend, storages, replicationMode, lbStrategy, lb,
                   cache, now, bg, val, nops>>

\* cache.go:190: s.valMu.Lock()
StopLockValMu(c) ==
    /\ pc[c] = "stopLockVal"
    /\ cache.valMu = 0
    /\ cache' = [cache EXCEPT !.valMu = c]
    /\ pc' = [pc EXCEPT ![c] = "stopHasVal"]
    /\ UNCHANGED <<valWG, backend, storages, replicationMode, lbStrategy, lb,
                   now, call, bg, val, nops>>

\* Where a call goes when its StopValidationRoutine has returned:
\* SetValidationOptions goes on to StartValidationRoutine (cache.go:235).
AfterStop(c) == IF call[c].op = "set" THEN "startLockVal" ELSE "idle"

StopCancelHoldingValMu(c) ==
    /\ pc[c] = "stopHasVal"
    /\ cache' = [cache EXCEPT !.valCancel = FALSE]
    /\ valWG' = IF cache.valCancel THEN Cancelled(valWG) ELSE valWG
    /\ pc' = [pc EXCEPT ![c] = IF cache.valCancel THEN "stopWait"
                                ELSE AfterStop(c)]
    /\ UNCHANGED <<backend, storages, replicationMode, lbStrategy, lb, now,
                   call, bg, val, nops>>

\* cache.go:191-196: valCancel is taken and cleared, valMu is released and
\* cancel() is called.  cancel() takes no lock and does not block.
StopCancel(c) ==
    /\ pc[c] = "stopHasVal"
    /\ cache' = [cache EXCEPT !.valCancel = FALSE, !.valMu = 0]
    /\ valWG' = IF cache.valCancel THEN Cancelled(valWG) ELSE valWG
    /\ pc' = [pc EXCEPT ![c] = IF cache.valCancel THEN "stopWait"
                                ELSE AfterStop(c)]
    /\ UNCHANGED <<backend, storages, replicationMode, lbStrategy, lb, now,
                   call, bg, val, nops>>

\* cache.go:197: s.valWG.Wait() is called: it returns at once when no
\* goroutine is counted, and blocks otherwise.
StopWait(c) ==
    /\ pc[c] = "stopWait"
    /\ pc' = [pc EXCEPT ![c] = IF Waited(valWG) THEN AfterStop(c)
                                ELSE "stopWaiting"]
    /\ UNCHANGED <<valWG, backend, storages, replicationMode, lbStrategy, lb,
                   cache, now, call, bg, val, nops>>

\* cache.go:229: SetValidationOptions is called.
SetEnter(c) ==
    /\ pc[c] = "idle"
    /\ \E v \in LockedOptionInputs :
         call' = [call EXCEPT ![c] =
            RoutineCall("set", [cache.Options EXCEPT !.ValidationStrategy = v])]
    /\ pc' = [pc EXCEPT ![c] = "setLock"]
    /\ UNCHANGED <<valWG, backend, storages, replicationMode, lbStrategy, lb,
                   cache, now, bg, val, nops>>

\* cache.go:230: s.mu.Lock()
SetLockMu(c) ==
    /\ pc[c] = "setLock"
    /\ cache.mu = 0
    /\ cache' = [cache EXCEPT !.mu = c]
    /\ pc' = [pc EXCEPT ![c] = "setLocked"]
    /\ UNCHANGED <<valWG, backend, storages, replicationMode, lbStrategy, lb,
                   now, call, bg, val, nops>>

\* cache.go:231-234: the policy is stored, mu is released and
\* StopValidationRoutine is called.
SetStoreOptions(c) ==
    /\ pc[c] = "setLocked"
    /\ cache' = [cache EXCEPT
          !.Options.ValidationStrategy = call[c].opts.ValidationStrategy,
          !.mu = 0]
    /\ pc' = [pc EXCEPT ![c] = "stopLockVal"]
    /\ UNCHANGED <<valWG, backend, storages, replicationMode, lbStrategy, lb,
                   now, call, bg, val, nops>>

\* cache.go:153: the deferred valWG.Done() of a goroutine that returns; the
\* one that brings the counter wg to zero releases every caller blocked in
\* valWG.Wait(), which returns.
Done(wg) ==
    [c \in DOMAIN pc |->
        IF pc[c] = "stopWaiting" /\ wg = EmptyBag THEN AfterStop(c)
        ELSE pc[c]]

\* The validation goroutine takes mu: after a tick (cache.go:160), in
\* validateCache (cache.go:203), for the snapshot (SamplingValidation.go:30)
\* and for a sampled entry that was expired in the snapshot
\* (SamplingValidation.go:68).
TaskLockMu ==
    /\ cache.mu = 0
    /\ \E task \in BagToSet(valWG) :
         /\ \/ task.state \in {"select", "validateCache", "apply"}
            \/ task.state = "validate" /\ SnapshotExpired(task, cache) # {}
         /\ valWG' = Replaced(valWG, task,
               [task EXCEPT !.state =
                   CASE task.state = "select" -> "tick"
                     [] task.state = "validateCache" -> "readOptions"
                     [] task.state = "apply" -> "snapshot"
                     [] OTHER -> "examine"])
    /\ cache' = [cache EXCEPT !.mu = TaskHolder]
    /\ UNCHANGED <<backend, storages, replicationMode, lbStrategy, lb, now,
                   pc, call, bg, val, nops>>

\* cache.go:161-174: the options are read and mu is released; the goroutine
\* returns when it has to stop or its interval changed, else it calls
\* validateCache.
TaskTickRead ==
    /\ \E task \in BagToSet(valWG) :
         /\ task.state = "tick"
         /\ LET v == cache.Options.ValidationStrategy
                curIV == IF ~v.isNil /\ v.ValidationInterval > 0
                         THEN v.ValidationInterval ELSE task.interval
            IN valWG' = Replaced(valWG, task,
                  IF NoRoutine(cache.Options) \/ curIV # task.interval
                  THEN NoTask
                  ELSE [task EXCEPT !.state = "validateCache"])
    /\ pc' = Done(valWG')
    /\ cache' = [cache EXCEPT !.mu = 0]
    /\ UNCHANGED <<backend, storages, replicationMode, lbStrategy, lb, now,
                   call, bg, val, nops>>

\* cache.go:214-226: the runner ValidationStrategyFactory returns with a nil
\* error: nil for no policy, a SamplingValidation for a sampling policy;
\* "error" when it returns an error.
RunnerOf(v) ==
    IF v.isNil \/ v.Strategy = NO_VALIDATION THEN "nil"
    ELSE IF v.Strategy = SAMPLING_VALIDATION THEN "sampling"
    ELSE "error"

\* cache.go:204-211, SamplingValidation.go:14-28: the policy is read, mu is
\* released and the runner of the factory is applied.  An error of the
\* factory ends the iteration; Apply on a nil runner is a nil dereference;
\* Apply of a sampling runner returns early without TTL or rate.
TaskFactory ==
    /\ \E task \in BagToSet(valWG) :
         /\ task.state = "readOptions"
         /\ LET v == cache.Options.ValidationStrategy
                rate == IF v.SamplingPercent > 100 THEN 100
                        ELSE v.SamplingPercent
            IN valWG' = Replaced(valWG, task,
                  CASE RunnerOf(v) = "error" ->
                          [task EXCEPT !.state = "select"]
                    [] RunnerOf(v) = "nil" ->
                          [task EXCEPT !.state = "panic"]
                    [] OTHER ->
                          IF cache.Options.TTL <= 0 \/ rate <= 0
                          THEN [task EXCEPT !.state = "select"]
                          ELSE [task EXCEPT !.state = "apply",
                                            !.rate = rate])
    /\ cache' = [cache EXCEPT !.mu = 0]
    /\ UNCHANGED <<backend, storages, replicationMode, lbStrategy, lb, now,
                   pc, call, bg, val, nops>>

\* SamplingValidation.go:31-61: the snapshot is taken, mu is released, the
\* sample is drawn and the clock is read.
TaskSnapshot ==
    /\ \E task \in BagToSet(valWG) :
         /\ task.state = "snapshot"
         /\ LET entries == Snapshot(cache.File) IN
            IF entries = {}
            THEN valWG' = Replaced(valWG, task,
                     [task EXCEPT !.state = "select", !.rate = 0])
            ELSE \E sample \in SUBSET entries :
                   /\ Cardinality(sample) =
                         SampleCount(Cardinality(entries), task.rate)
                   /\ valWG' = Replaced(valWG, task,
                         [task EXCEPT !.state = "validate", !.rate = 0,
                                      !.sample = sample, !.at = now])
    /\ cache' = [cache EXCEPT !.mu = 0]
    /\ UNCHANGED <<backend, storages, replicationMode, lbStrategy, lb, now,
                   pc, call, bg, val, nops>>

\* SamplingValidation.go:63-66, 79: the sampled entries that were not
\* expired in the snapshot are passed over; after the last entry Apply
\* returns and the goroutine is back at its select.
TaskSkip ==
    /\ \E task \in BagToSet(valWG) :
         /\ task.state = "validate"
         /\ SnapshotExpired(task, cache) = {}
         /\ valWG' = Replaced(valWG, task,
               [task EXCEPT !.state = "select", !.sample = {}, !.at = 0])
    /\ UNCHANGED <<backend, storages, replicationMode, lbStrategy, lb, cache,
                   now, pc, call, bg, val, nops>>

\* SamplingValidation.go:69-74: under mu the entry is deleted when it is
\* still the one of the snapshot and still expired; mu is released.
TaskExamine ==
    /\ \E task \in BagToSet(valWG) :
         /\ task.state = "examine"
         /\ \E e \in SnapshotExpired(task, cache) :
              /\ valWG' = Replaced(valWG, task,
                    [task EXCEPT !.state = "validate", !.sample = @ \ {e}])
              /\ cache' =
                    [(IF DeleteUnderLock(cache.File[e[1]], e[2],
                                         cache.Options.TTL, now)
                      THEN Invalidate(cache, e[1]) ELSE cache)
                     EXCEPT !.mu = 0]
    /\ UNCHANGED <<backend, storages, replicationMode, lbStrategy, lb, now,
                   pc, call, bg, val, nops>>

\* cache.go:176-177: a cancelled goroutine returns from its select.
TaskExit ==
    /\ \E task \in BagToSet(valWG) :
         /\ task.state = "select"
         /\ task.cancelled
         /\ valWG' = Replaced(valWG, task, NoTask)
    /\ pc' = Done(valWG')
    /\ UNCHANGED <<backend, storages, replicationMode, lbStrategy, lb, cache,
                   now, call, bg, val, nops>>

\* An enabled cache as ConfigureCache creates it.
LockedCaches ==
    {StartedCache([NewCache(options) EXCEPT
         !.File = [key \in LockedFileNames |-> NoEntry]]) :
        options \in {o \in SmallCacheOptions : o.MaxItems = 1}}

InitLocks ==
    /\ storages = <<>>
    /\ replicationMode = SYNC_REPLICATION
    /\ lbStrategy = READ_REPLICA_FIRST
    /\ lb = NoLoadBalancer
    /\ cache \in LockedCaches
    /\ valWG = IF cache.valCancel
               THEN SetToBag({StartedTask([cache EXCEPT !.valCancel = FALSE],
                                          NoTask)})
               ELSE EmptyBag
    /\ val = NoTask
    /\ now = 0
    /\ pc = [c \in ConcurrentCallers |-> "idle"]
    /\ call = [c \in ConcurrentCallers |-> IdleCall]
    /\ bg = {}
    /\ nops = 0
    /\ backend = NoBackend

\* A panic of a validation goroutine ends the process: nothing runs after it.
NextLocks ==
    \/ \E c \in ConcurrentCallers : ~Panicked /\ StoreEnter(c)
    \/ \E c \in ConcurrentCallers : ~Panicked /\ GetFileEnter(c)
    \/ \E c \in ConcurrentCallers : ~Panicked /\ InvalidateEnter(c)
    \/ \E c \in ConcurrentCallers : ~Panicked /\ ClearEnter(c)
    \/ \E c \in ConcurrentCallers : ~Panicked /\ DataLockMu(c)
    \/ \E c \in ConcurrentCallers : ~Panicked /\ DataUnlockMu(c)
    \/ \E c \in ConcurrentCallers : ~Panicked /\ StartEnter(c)
    \/ \E c \in ConcurrentCallers : ~Panicked /\ StartLockValMu(c)
    \/ \E c \in ConcurrentCallers : ~Panicked /\ StartLockMu(c)
    \/ \E c \in ConcurrentCallers : ~Panicked /\ StartReadOptions(c)
    \/ \E c \in ConcurrentCallers : ~Panicked /\ StartSpawn(c)
    \/ \E c \in ConcurrentCallers : ~Panicked /\ StopEnter(c)
    \/ \E c \in ConcurrentCallers : ~Panicked /\ StopLockValMu(c)
    \/ \E c \in ConcurrentCallers : ~Panicked /\ StopCancel(c)
    \/ \E c \in ConcurrentCallers : ~Panicked /\ StopWait(c)
    \/ \E c \in ConcurrentCallers : ~Panicked /\ SetEnter(c)
    \/ \E c \in ConcurrentCallers : ~Panicked /\ SetLockMu(c)
    \/ \E c \in ConcurrentCallers : ~Panicked /\ SetStoreOptions(c)
    \/ ~Panicked /\ TaskLockMu
    \/ ~Panicked /\ TaskTickRead
    \/ ~Panicked /\ TaskFactory
    \/ ~Panicked /\ TaskSnapshot
    \/ ~Panicked /\ TaskSkip
    \/ ~Panicked /\ TaskExamine
    \/ ~Panicked /\ TaskExit
    \/ ~Panicked /\ Tick

SpecLocks == InitLocks /\ [][NextLocks]_vars

----------------------------------------------------------------------------
(* roundRobinLB.Apply called by several goroutines on a load balancer that *)
(* is built, part_001:21-67, up to the choice of the clients to ask.       *)
(* lb.mu is the goroutine that holds the mutex of the load balancer, 0 for *)
(* none.  Every goroutine makes one call.                                  *)

MaxAppliers == 3

\* The goroutines that call Apply.
Appliers == 1..MaxAppliers

\* part_001:21-24: Apply is called; without a group it returns an error.
ApplyEnter(c) ==
    /\ pc[c] = "idle"
    /\ call[c] = IdleCall
    /\ IF Len(lb.group) = 0
       THEN /\ call' = [call EXCEPT ![c] =
                 [IdleCall EXCEPT !.op = "apply",
                     !.result = Error("no client groups configured")]]
            /\ pc' = pc
       ELSE /\ call' = [call EXCEPT ![c] = [IdleCall EXCEPT !.op = "apply"]]
            /\ pc' = [pc EXCEPT ![c] = "applyLock"]
    /\ UNCHANGED <<valWG, backend, storages, replicationMode, lbStrategy, lb,
                   cache, now, bg, val, nops>>

ApplyLockFree(c) ==
    /\ pc[c] = "applyLock"
    /\ pc' = [pc EXCEPT ![c] = "applyStart"]
    /\ UNCHANGED <<valWG, backend, storages, replicationMode, lbStrategy, lb,
                   cache, now, call, bg, val, nops>>

\* part_001:30: r.mu.Lock()
ApplyLock(c) ==
    /\ pc[c] = "applyLock"
    /\ lb.mu = 0
    /\ lb' = [lb EXCEPT !.mu = c]
    /\ pc' = [pc EXCEPT ![c] = "applyStart"]
    /\ UNCHANGED <<valWG, backend, storages, replicationMode, lbStrategy, cache,
                   now, call, bg, val, nops>>

\* part_001:31-32: start := r.currentClient % clientNum
ApplyStart(c) ==
    /\ pc[c] = "applyStart"
    /\ call' = [call EXCEPT ![c].i = RoundRobinStart(lb)]
    /\ pc' = [pc EXCEPT ![c] = "applyAdvance"]
    /\ UNCHANGED <<valWG, backend, storages, replicationMode, lbStrategy, lb,
                   cache, now, bg, val, nops>>

\* part_001:34: r.currentClient = (start + 1) % clientNum
ApplyAdvance(c) ==
    /\ pc[c] = "applyAdvance"
    /\ lb' = [lb EXCEPT !.currentClient = (call[c].i + 1) % Len(lb.group[1])]
    /\ pc' = [pc EXCEPT ![c] = "applyUnlock"]
    /\ UNCHANGED <<valWG, backend, storages, replicationMode, lbStrategy, cache,
                   now, call, bg, val, nops>>

\* part_001:36-41: the primary clients from start on, and r.mu.Unlock().
ApplyUnlock(c) ==
    /\ pc[c] = "applyUnlock"
    /\ call' = [call EXCEPT ![c].mains =
                  RoundRobinOrder([lb EXCEPT !.currentClient = call[c].i])]
    /\ lb' = [lb EXCEPT !.mu = 0]
    /\ pc' = [pc EXCEPT ![c] = "idle"]
    /\ UNCHANGED <<valWG, backend, storages, replicationMode, lbStrategy, cache,
                   now, bg, val, nops>>

\* A round robin load balancer that GetObject has built and used.
InitApply ==
    /\ storages \in StorageLists(MaxGetStorages)
    /\ replicationMode = SYNC_REPLICATION
    /\ lbStrategy = ROUND_ROBIN
    /\ \E cursor \in 0..MaxGetStorages :
         /\ IF Len(Groups) = 0 THEN cursor = 0 ELSE cursor < Len(Groups[1])
         /\ lb = [strategy |-> ROUND_ROBIN, group |-> Groups,
                  currentClient |-> cursor, mu |-> 0]
    /\ cache = NoCache
    /\ now = 0
    /\ pc = [c \in Appliers |-> "idle"]
    /\ call = [c \in Appliers |-> IdleCall]
    /\ bg = {}
    /\ val = NoTask
    /\ nops = 0
    /\ backend = NoBackend
    /\ valWG = EmptyBag

NextApply ==
    \E c \in Appliers :
        \/ ApplyEnter(c) \/ ApplyLock(c) \/ ApplyStart(c)
        \/ ApplyAdvance(c) \/ ApplyUnlock(c)

SpecApply == InitApply /\ [][NextApply]_vars

----------------------------------------------------------------------------
(* PutObject next to GetObject on one key, FileClient.go:372-516: a        *)
(* FileClient with one main backend and an enabled cache, one goroutine    *)
(* that writes and one that reads.  backend.object is the object the       *)
(* storage service holds for the key.                                      *)

MaxStaleOps == 3

Writer == 1

Reader == 2

\* The bytes of the k-th call, told apart by k.
Version(k) == [id |-> 10 + k, len |-> 1]

\* The object the service holds before the first PutObject.
StaleObject == Object([id |-> 1, len |-> 1])

\* FileClient.go:372-392, 424: PutObject of new bytes by the writer.
StalePutObject(c) ==
    /\ c = Writer
    /\ pc[c] = "idle"
    /\ nops < MaxStaleOps
    /\ nops' = nops + 1
    /\ call' = [call EXCEPT ![c] =
          [StartCall("put", "docs", "report.pdf") EXCEPT
              !.buf = Version(nops), !.mains = MainStorages, !.i = 1]]
    /\ pc' = [pc EXCEPT ![c] = "putSync"]
    /\ UNCHANGED <<valWG, backend, storages, replicationMode, lbStrategy, lb,
                   cache, now, bg, val>>

\* FileClient.go:426-430: one iteration of the SYNC loop; the write that
\* succeeds replaces the object of the service.
StalePutWrite(c) ==
    /\ pc[c] = "putSync"
    /\ ~PutSyncDone(call[c].i, call[c].mains, call[c].errs)
    /\ LET b == call[c].mains[call[c].i] IN
       \E ok \in BackendOutcomes(call[c].ctx) :
         /\ call' = [call EXCEPT
                ![c].i = @ + 1,
                ![c].tried = Append(@, b),
                ![c].errs = IF ok THEN @ ELSE Append(@, b)]
         /\ backend' = IF ok THEN [backend EXCEPT !.object = Object(call[c].buf)]
                       ELSE backend
    /\ UNCHANGED <<valWG, storages, replicationMode, lbStrategy, lb, cache, now,
                   pc, bg, val, nops>>

\* FileClient.go:448-454: GetObject of the key by the reader.
StaleGetObject(c) ==
    /\ c = Reader
    /\ GetObjectUpTo(c, MaxStaleOps)
    /\ call'[c].storeBox = "docs"

\* classic.go:24-27: the client is asked for the object and fails, or
\* returns the object the service holds at that moment.
StaleGetTry(c) ==
    /\ pc[c] = "getTry"
    /\ call[c].i <= Len(call[c].mains)
    /\ LET b == call[c].mains[call[c].i] IN
       \/ /\ call' = [call EXCEPT ![c].i = @ + 1,
                                  ![c].tried = Append(@, b),
                                  ![c].errs = Append(@, b)]
          /\ pc' = pc
       \/ /\ call[c].ctx = "live"
          /\ backend.object.present
          /\ call' = [call EXCEPT ![c].tried = Append(@, b),
                                  ![c].buf = backend.object.bytes]
          /\ pc' = [pc EXCEPT ![c] = "getStore"]
    /\ UNCHANGED <<valWG, backend, storages, replicationMode, lbStrategy, lb,
                   cache, now, bg, val, nops>>

InitStale ==
    /\ storages = <<TRUE>>
    /\ replicationMode = SYNC_REPLICATION
    /\ lbStrategy = READ_REPLICA_FIRST
    /\ lb = NoLoadBalancer
    /\ cache \in {NewCache(options) :
                    options \in {o \in SmallCacheOptions :
                                    o.ValidationStrategy.isNil}}
    /\ now = 0
    /\ pc = [c \in ConcurrentCallers |-> "idle"]
    /\ call = [c \in ConcurrentCallers |-> IdleCall]
    /\ bg = {}
    /\ val = NoTask
    /\ nops = 0
    /\ backend = [NoBackend EXCEPT !.object = StaleObject]
    /\ valWG = EmptyBag

NextStale ==
    \E c \in ConcurrentCallers :
        \/ StalePutObject(c) \/ StalePutWrite(c) \/ PutSyncReturn(c)
        \/ StaleGetObject(c) \/ GetHit(c) \/ GetBalance(c)
        \/ StaleGetTry(c) \/ GetFail(c) \/ GetStore(c)

SpecStale == InitStale /\ [][NextStale]_vars

----------------------------------------------------------------------------
(* One backend client alone: PutObject and GetObject of AzBlobClient and   *)
(* MinioClient on one object of the storage service                        *)

InitTransform ==
    /\ storages = <<>>
    /\ replicationMode = SYNC_REPLICATION
    /\ lbStrategy = READ_REPLICA_FIRST
    /\ lb = NoLoadBalancer
    /\ cache = NoCache
    /\ now = 0
    /\ pc = [c \in Callers |-> "idle"]
    /\ call = [c \in Callers |-> IdleCall]
    /\ bg = {}
    /\ val = NoTask
    /\ nops = 0
    /\ valWG = EmptyBag
    /\ \E kind \in BackendKinds, props \in ConnectionProperties :
         backend = [kind |-> kind, properties |-> props, object |-> NoObject,
                    requests |-> 0]

NextTransform ==
    \/ \E c \in Callers : BackendPutObject(c) \/ BackendGetObject(c)
    \/ OtherWriter

SpecTransform == InitTransform /\ [][NextTransform]_vars

----------------------------------------------------------------------------
(* Properties of the replication engine *)

IsMain(b) == b \in DOMAIN storages /\ storages[b]

NumMains == Cardinality({b \in DOMAIN storages : storages[b]})

\* The j-th main backend in list order.
NthMain(j) ==
    CHOOSE b \in DOMAIN storages :
        storages[b] /\ Cardinality({x \in 1..b : storages[x]}) = j

Front(s) == SubSeq(s, 1, Len(s) - 1)

Returns(c, from) == pc[c] \in from /\ pc'[c] = "idle"

Returned(c, op) == pc[c] = "idle" /\ call[c].op = op

FailedOnAllN(r, n) ==
    r.text = "[sync] PutObject failed on all %d storages: %w" /\ r.n = n

PartiallyFailedOn(r, k, n) ==
    /\ r.text = "[sync] PutObject partially failed on %d/%d storages: %w"
    /\ r.k = k
    /\ r.n = n

\* C1: a SYNC PutObject over N >= 1 main backends of which k failed returns
\* nil iff k = 0, an error "failed on all N" iff k = N, and an error
\* "partially failed on k/N" iff 0 < k < N, N being the number of main
\* backends; so partial and total failure are told apart.
C1_SyncPutTriState ==
    [][\A c \in DOMAIN pc :
         Returns(c, {"putSync"}) =>
            LET k == Len(call[c].errs)
                r == call'[c].result
            IN /\ NumMains >= 1
               /\ (r = Nil) <=> (k = 0)
               /\ FailedOnAllN(r, NumMains) <=> (k = NumMains)
               /\ PartiallyFailedOn(r, k, NumMains) <=> (0 < k /\ k < NumMains)
               /\ ~(FailedOnAllN(r, NumMains) /\ PartiallyFailedOn(r, k, NumMains))
      ]_vars

C1_Witness ==
    \E c \in DOMAIN pc :
        /\ Returned(c, "put")
        /\ replicationMode = SYNC_REPLICATION
        /\ PartiallyFailedOn(call[c].result, 1, 3)

\* C2: when a SYNC PutObject returns, every main backend has received
\* exactly one write, also those after a backend that failed, and the
\* returning step itself writes nothing.
C2_SyncPutWritesAll ==
    [][\A c \in DOMAIN pc :
         /\ Returns(c, {"putSync"}) =>
               /\ Len(call[c].tried) = NumMains
               /\ \A j \in 1..NumMains : call[c].tried[j] = NthMain(j)
         /\ (pc[c] = "putSync" /\ pc'[c] = "putSync") =>
               Len(call'[c].tried) <= Len(call[c].tried) + 1
      ]_vars

C2_Witness ==
    \E c \in DOMAIN pc :
        /\ pc[c] = "putSync"
        /\ Len(call[c].tried) = 3
        /\ call[c].errs = <<call[c].tried[1]>>

AsyncPositions == {"putAsync", "putFanOut", "putAsyncReturn"}

\* C3: the synchronous pass of an ASYNC PutObject tries the main backends
\* in list order; every backend tried before the last one failed; once a
\* write has succeeded no further backend is written synchronously and the
\* call returns nil, so on a nil return a main backend holds the write.
C3_AsyncFirstSuccess ==
    [][\A c \in DOMAIN pc :
         /\ pc'[c] \in AsyncPositions =>
               /\ Len(call'[c].tried) <= NumMains
               /\ \A j \in 1..Len(call'[c].tried) : call'[c].tried[j] = NthMain(j)
               /\ pc'[c] = "putAsync" => call'[c].errs = call'[c].tried
               /\ pc'[c] # "putAsync" =>
                     /\ Len(call'[c].tried) >= 1
                     /\ call'[c].errs = Front(call'[c].tried)
         /\ (pc[c] \in {"putFanOut", "putAsyncReturn"} /\ pc'[c] # "idle") =>
               call'[c].tried = call[c].tried
         /\ pc[c] \in {"putFanOut", "putAsyncReturn"} =>
               pc'[c] \in {"putFanOut", "putAsyncReturn", "idle"}
         /\ Returns(c, {"putAsyncReturn"}) =>
               /\ call'[c].result = Nil
               /\ IsMain(call[c].tried[Len(call[c].tried)])
               /\ call[c].tried[Len(call[c].tried)] \notin Range(call[c].errs)
      ]_vars

C3_Witness ==
    \E c \in DOMAIN pc :
        /\ pc[c] = "putAsyncReturn"
        /\ NumMains = 3
        /\ call[c].tried = <<NthMain(1), NthMain(2)>>
        /\ call[c].errs = <<NthMain(1)>>

Launched(b) == \E g \in bg : g.backend = b /\ g.state = "launched"

\* C4: when the synchronous pass of an ASYNC PutObject has succeeded, a
\* goroutine is launched for every other main backend, with a context that
\* the caller's cancellation does not reach; the caller returns nil without
\* waiting for them; what a goroutine's write returns changes nothing the
\* caller received; and every launched goroutine eventually issues its write.
C4_AsyncFanOut ==
    /\ [][\A c \in DOMAIN pc :
            /\ (pc[c] = "putFanOut" /\ pc'[c] = "putAsyncReturn") =>
                  \A b \in DOMAIN storages :
                     (storages[b] /\ b # call[c].tried[Len(call[c].tried)]) =>
                        \E g \in bg' :
                           /\ g.call = nops
                           /\ g.backend = b
                           /\ g.state = "launched"
            /\ \A g \in bg' : g.ctx = "live"
            /\ Returns(c, {"putAsyncReturn"}) =>
                  call'[c].result = Nil /\ bg' = bg
            /\ (\E g \in bg : g.state = "launched" /\ g \notin bg') =>
                  call' = call /\ pc' = pc
         ]_vars
    /\ \A b \in 1..MaxStorages : Launched(b) ~> ~Launched(b)

C4_Witness ==
    \E c \in DOMAIN pc :
        /\ Returned(c, "put")
        /\ call[c].result = Nil
        /\ \E g \in bg : g.call = nops /\ g.state = "failed"
        /\ \E g \in bg : g.call = nops /\ g.state = "launched"

\* C5: an ASYNC PutObject whose every main backend failed has tried each
\* main backend exactly once, launches no goroutine and returns the error
\* "[async] PutObject failed on all main storages"; it returns that error in
\* no other case.
C5_AsyncAllFail ==
    [][\A c \in DOMAIN pc :
         Returns(c, AsyncPositions) =>
            LET allFailed == /\ Len(call[c].errs) = NumMains
                             /\ \A j \in 1..NumMains : call[c].errs[j] = NthMain(j)
                failure == call'[c].result.text =
                              "[async] PutObject failed on all main storages"
            IN /\ failure <=> allFailed
               /\ failure =>
                     /\ call[c].tried = call[c].errs
                     /\ bg' = bg
                     /\ \A g \in bg' : g.call # nops
      ]_vars

C5_Witness ==
    \E c \in DOMAIN pc :
        /\ Returned(c, "put")
        /\ NumMains = 3
        /\ call[c].result.text = "[async] PutObject failed on all main storages"

\* C6: RemoveObject sends one remove to every main backend, waits for all
\* of them and returns nil iff none failed, the all-failed error iff all N
\* main backends failed, and otherwise the partial-failure error naming
\* k/N, k the number of failed and N the number of main backends.
C6_RemoveTriState ==
    [][\A c \in DOMAIN pc :
         Returns(c, {"removeWait"}) =>
            LET k == Len(call[c].errs)
                r == call'[c].result
            IN /\ call[c].pending = {}
               /\ (r = Nil) <=> (k = 0)
               /\ (r.text = "RemoveObject failed on all main storages: %w")
                     <=> (k = NumMains)
               /\ (/\ r.text = "RemoveObject partially failed on %d/%d storages: %w"
                   /\ r.k = k
                   /\ r.n = NumMains) <=> (0 < k /\ k < NumMains)
      ]_vars

C6_Witness ==
    \E c \in DOMAIN pc :
        /\ Returned(c, "remove")
        /\ NumMains = 2
        /\ Len(storages) = 3
        /\ call[c].result.text = "RemoveObject partially failed on %d/%d storages: %w"
        /\ call[c].result.k = 1
        /\ call[c].result.n = 3

\* C9: no PutObject and no RemoveObject is ever sent to a backend whose
\* IsMainInstance is false, neither by the caller nor by a goroutine.
C9_ReplicasNeverWritten ==
    /\ \A g \in bg : IsMain(g.backend)
    /\ \A c \in DOMAIN pc :
          call[c].op \in {"put", "remove"} =>
             /\ \A j \in DOMAIN call[c].tried : IsMain(call[c].tried[j])
             /\ \A j \in DOMAIN call[c].mains : IsMain(call[c].mains[j])
             /\ \A b \in call[c].pending : IsMain(b)

C9_Witness ==
    /\ \E b \in DOMAIN storages : ~storages[b]
    /\ \E g \in bg : g.state = "written"
    /\ \E c \in DOMAIN pc : pc[c] = "removeWait" /\ call[c].pending = {}

----------------------------------------------------------------------------
(* Properties of the cache coupling *)

KeyOf(c) == CacheKey(call[c].storeBox, call[c].fileName)

\* C7: whenever PutObject (SYNC or ASYNC) or RemoveObject returns nil on a
\* FileClient with a configured cache, the cache holds no entry for the
\* key storeBox/fileName when the call returns, after whatever sequence of
\* ConfigureCache, EnableCache, DisableCache and GetObject came before.
C7_SuccessInvalidates ==
    [][\A c \in DOMAIN pc :
         (/\ Returns(c, {"putSync", "putAsyncReturn", "removeWait"})
          /\ call'[c].result = Nil
          /\ cache'.configured)
            => ~cache'.File[KeyOf(c)].present
      ]_vars

C7_Witness ==
    \E c \in DOMAIN pc :
        /\ Returned(c, "put")
        /\ call[c].result = Nil
        /\ cache.configured
        /\ ~cache.Options.Enabled
        /\ cache.File[KeyOf(c)].present

StartsWrite(c) ==
    /\ pc[c] = "idle"
    /\ nops' = nops + 1
    /\ call'[c].op \in {"put", "remove"}

NoBackendTouched(c) ==
    /\ pc'[c] = "idle"
    /\ call'[c].tried = <<>>
    /\ call'[c].pending = {}
    /\ bg' \subseteq bg
    /\ cache' = cache

NoMainText(op) ==
    IF op = "put" THEN "no main instance found for PutObject operation"
    ELSE "no main instance found for RemoveObject operation"

\* C8 as stated: with zero main backends PutObject and RemoveObject return
\* the "no main instance found" error, call no backend and leave the cache
\* unchanged.
C8_NoMainAsStated ==
    [][\A c \in DOMAIN pc :
         (StartsWrite(c) /\ NumMains = 0) =>
            /\ call'[c].result.text = NoMainText(call'[c].op)
            /\ NoBackendTouched(c)
      ]_vars

\* C8: with zero main backends PutObject and RemoveObject call no backend
\* (replicas included) and leave the cache unchanged; RemoveObject returns
\* the "no main instance found" error, and so does PutObject when its reader
\* is non-nil and readable; a nil reader gives "reader is nil" and an
\* unreadable one "failed to read input stream", both checked first.
C8_NoMain ==
    [][\A c \in DOMAIN pc :
         (StartsWrite(c) /\ NumMains = 0) =>
            /\ NoBackendTouched(c)
            /\ call'[c].result.text =
                  IF call'[c].op = "put" /\ call'[c].buf = NilReader
                  THEN "reader is nil"
                  ELSE IF call'[c].op = "put" /\ call'[c].buf = FailingReader
                  THEN "failed to read input stream: %w"
                  ELSE NoMainText(call'[c].op)
      ]_vars

C8_Witness ==
    \E c \in DOMAIN pc :
        /\ Returned(c, "put")
        /\ NumMains = 0
        /\ Len(storages) > 0
        /\ call[c].result.text = "no main instance found for PutObject operation"
        /\ CacheInUse(cache)
        /\ cache.File[KeyOf(c)].present

WithinTTL(key) ==
    /\ cache.configured
    /\ cache.File[key].present
    /\ now - cache.File[key].createAt <= cache.Options.TTL

\* A GetObject that missed the cache and succeeded stores the bytes it
\* returns under storeBox/fileName when they are within MaxSizeMB.
MissStores ==
    \A c \in DOMAIN pc :
       (/\ Returns(c, {"getStore"})
        /\ call'[c].result.text = "nil"
        /\ CacheInUse(cache)
        /\ call[c].buf.len <= cache.Options.MaxSizeMB * BytesPerMB)
          => /\ call'[c].result = Data(call[c].buf)
             /\ cache'.File[KeyOf(c)] = Entry(call[c].buf, now)

\* A GetObject on an enabled cache holding the key within TTL returns the
\* cached bytes and calls no backend.
HitServes ==
    \A c \in DOMAIN pc :
       /\ (/\ pc[c] = "idle"
           /\ nops' = nops + 1
           /\ call'[c].op = "get"
           /\ CacheInUse(cache)
           /\ WithinTTL(CacheKey(call'[c].storeBox, call'[c].fileName)))
             => /\ pc'[c] = "getHit"
                /\ call'[c].buf =
                      cache.File[CacheKey(call'[c].storeBox, call'[c].fileName)].data
                /\ call'[c].tried = <<>>
                /\ cache' = cache
       /\ (pc[c] = "getHit" /\ pc'[c] # "getHit")
             => /\ pc'[c] = "idle"
                /\ call'[c].result = Data(call[c].buf)
                /\ call[c].tried = <<>>

\* The steps the claim names as ending the lifetime of the entry of key: a
\* Put or Remove of the key returning, a Clear, an eviction (a Store of
\* another key).
EndsEntry(key) ==
    \E c \in DOMAIN pc :
       \/ Returns(c, {"putSync", "putAsyncReturn", "removeWait"}) /\ KeyOf(c) = key
       \/ ClearCache(c)
       \/ Returns(c, {"getStore"}) /\ KeyOf(c) # key

Reconfigures == \E c \in DOMAIN pc : ConfigureCache(c) \/ ConfigureCacheFinish(c)

----------------------------------------------------------------------------
(* Properties of the load balancers *)

NumReplicas == Cardinality({b \in DOMAIN storages : ~storages[b]})

\* The j-th non-main backend in list order.
NthReplica(j) ==
    CHOOSE b \in DOMAIN storages :
        ~storages[b] /\ Cardinality({x \in 1..b : ~storages[x]}) = j

\* The non-main backends in list order, then the main ones in list order.
ReplicasThenMains ==
    [j \in 1..Len(storages) |->
        IF j <= NumReplicas THEN NthReplica(j) ELSE NthMain(j - NumReplicas)]

IsPrefix(s, t) == Len(s) <= Len(t) /\ \A j \in 1..Len(s) : s[j] = t[j]

\* C11: with READ_REPLICA_FIRST a GetObject asks the non-main backends in
\* list order, then the main backends in list order; every backend asked
\* before the last one failed; after the first success no backend is asked
\* and the bytes of that backend are returned; when every backend has failed
\* the call returns no reader and the error "all clients failed to get the
\* object".
C11_ClassicOrder ==
    [][\A c \in DOMAIN pc :
         (lbStrategy = READ_REPLICA_FIRST /\ Len(storages) >= 1) =>
            /\ pc'[c] \in {"getTry", "getStore"} =>
                  /\ IsPrefix(call'[c].tried, ReplicasThenMains)
                  /\ pc'[c] = "getTry" => call'[c].errs = call'[c].tried
                  /\ pc'[c] = "getStore" =>
                        /\ call'[c].tried # <<>>
                        /\ call'[c].errs = Front(call'[c].tried)
            /\ pc[c] = "getStore" =>
                  /\ pc'[c] \in {"getStore", "idle"}
                  /\ pc'[c] = "getStore" => call'[c].tried = call[c].tried
            /\ (Returns(c, {"getStore"}) /\ call'[c].result.text = "nil") =>
                  call'[c].result.data = call[c].buf
            /\ Returns(c, {"getTry"}) =>
                  /\ call[c].tried = ReplicasThenMains
                  /\ call[c].errs = call[c].tried
                  /\ call'[c].result.data = NoData
                  /\ call'[c].result.text =
                        "FileClient GetObject error: all clients failed to get the object"
      ]_vars

C11_Witness ==
    \E c \in DOMAIN pc :
        /\ lbStrategy = READ_REPLICA_FIRST
        /\ storages = <<TRUE, FALSE, TRUE>>
        /\ pc[c] = "getStore"
        /\ call[c].tried = <<2, 1, 3>>
        /\ call[c].errs = <<2, 1>>

\* C12: with ROUND_ROBIN, when every configured backend (replicas and
\* mains) has failed, GetObject returns no reader and an error whose text
\* contains "all clients failed to get the object".
C12_RoundRobinAllFail ==
    [][\A c \in DOMAIN pc :
         (/\ lbStrategy = ROUND_ROBIN
          /\ Len(storages) >= 1
          /\ Returns(c, {"getTry"})
          /\ Range(call[c].errs) = DOMAIN storages)
            => /\ call'[c].result.data = NoData
               /\ call'[c].result.text =
                     "FileClient GetObject error: all clients failed to get the object"
      ]_vars

C12_Witness ==
    \E c \in DOMAIN pc :
        /\ Returned(c, "get")
        /\ lbStrategy = ROUND_ROBIN
        /\ storages = <<FALSE, FALSE, TRUE>>
        /\ call[c].result.data = NoData
        /\ call[c].result.text =
              "FileClient GetObject error: errors.Join(group#%d: %w ...)"
        /\ call[c].result.n = 3

\* C13: with ROUND_ROBIN over n >= 1 replica backends and no cache, the
\* i-th GetObject call (i = 0, 1, 2, ...) asks replica (i mod n) first, and
\* when that replica succeeds it is the only backend contacted by the call:
\* sequential calls on replicas that all succeed are served in cyclic list
\* order.
C13_RoundRobinCycle ==
    [][\A c \in DOMAIN pc :
         (lbStrategy = ROUND_ROBIN /\ NumReplicas >= 1) =>
            /\ (pc[c] = "getTry" /\ call[c].tried = <<>>
                                 /\ call'[c].tried # <<>>) =>
                  call'[c].tried =
                     <<NthReplica(((nops - 1) % NumReplicas) + 1)>>
            /\ (pc[c] = "getTry" /\ call[c].tried = <<>>
                                 /\ pc'[c] = "getStore") =>
                  Len(call'[c].tried) = 1
            /\ pc[c] = "getStore" =>
                  /\ pc'[c] \in {"getStore", "idle"}
                  /\ pc'[c] = "getStore" => call'[c].tried = call[c].tried
      ]_vars

C13_Witness ==
    \E c \in DOMAIN pc :
        /\ lbStrategy = ROUND_ROBIN
        /\ storages = <<FALSE, FALSE, FALSE>>
        /\ nops = 6
        /\ pc[c] = "getStore"
        /\ call[c].tried = <<3>>

\* The index of the replica with which the next ROUND_ROBIN read of storeBox
\* starts: roundRobinLB keeps one currentClient, whatever the storeBox.
NextStartFor(storeBox) ==
    IF lb = NoLoadBalancer THEN 0 ELSE RoundRobinStart(lb)

\* C14: ROUND_ROBIN keeps its rotating index per storeBox: a read of one
\* storeBox does not change the replica with which the next read of another
\* storeBox starts.
C14_IndexPerStoreBox ==
    [][\A c \in DOMAIN pc :
         (/\ lbStrategy = ROUND_ROBIN
          /\ NumReplicas >= 2
          /\ pc[c] = "getBalance"
          /\ pc'[c] = "getTry")
            => \A other \in StoreBoxes \ {call[c].storeBox} :
                  NextStartFor(other)' = NextStartFor(other)
      ]_vars

C14_Witness ==
    \E c \in DOMAIN pc :
        /\ lbStrategy = ROUND_ROBIN
        /\ storages = <<FALSE, FALSE>>
        /\ nops = 1
        /\ pc[c] = "getTry"
        /\ call[c].storeBox = "docs"
        /\ NextStartFor("img") = 1

----------------------------------------------------------------------------
(* Properties of the FileCache *)

\* The step is a Store(key, d) of caller c.
StoreStep(c, key, d) ==
    /\ call'[c] = CacheCall("store", key, d, Nil)
    /\ now' = now
    /\ val' = val
    /\ cache' \in Store(cache, key, d, now)

\* The step is a GetFile(key) of caller c.
LookupStep(c, key) ==
    /\ call'[c].op = "lookup"
    /\ call'[c].fileName = key
    /\ now' = now
    /\ val' = val
    /\ cache' = GetFileCache(cache, key, now)

Age(entry) == now - entry.createAt

\* A GetFile of key made on cache c at this very instant returns d.
LookupReturns(c, key, d) == GetFileHit(c, key, now) /\ c.File[key].data = d

\* No GetFile returns the bytes of an entry older than TTL; a GetFile of an
\* entry older than TTL reports a miss and removes the entry from the map.
LazyExpiry ==
    \A c \in DOMAIN pc, key \in DOMAIN cache.File :
       LookupStep(c, key) =>
          /\ call'[c].result # Nil =>
                /\ cache.File[key].present
                /\ Age(cache.File[key]) <= cache.Options.TTL
                /\ call'[c].result = Data(cache.File[key].data)
          /\ (/\ Enabled(cache)
              /\ cache.File[key].present
              /\ Age(cache.File[key]) > cache.Options.TTL)
                => /\ call'[c].result = Nil
                   /\ ~cache'.File[key].present

C16_AtMostMaxItems ==
    Enabled(cache) => Count(cache.File) <= cache.Options.MaxItems

C16_Witness ==
    /\ Enabled(cache)
    /\ cache.Options.MaxItems = 1
    /\ Count(cache.File) = 2
    /\ \A key \in DOMAIN cache.File :
          cache.File[key].present => cache.File[key].createAt = now

\* The map right after Store has inserted the new key, before the eviction.
Inserted(key, d) == [cache.File EXCEPT ![key] = Entry(d, now)]

\* The entries of file that are gone after the step.
Evicted(file) ==
    {k \in DOMAIN file : file[k].present /\ ~cache'.File[k].present}

\* C17: when Store inserts a new key and the count then exceeds MaxItems,
\* exactly one entry is evicted, and it is the one with the oldest
\* timestamp of all entries at insertion time.
C17_EvictsOldest ==
    [][\A c \in DOMAIN pc, key \in DOMAIN cache.File, d \in Payloads :
         (/\ StoreStep(c, key, d)
          /\ Enabled(cache)
          /\ d.len <= cache.Options.MaxSizeMB * BytesPerMB
          /\ ~cache.File[key].present
          /\ Count(Inserted(key, d)) > cache.Options.MaxItems)
            => /\ Cardinality(Evicted(Inserted(key, d))) = 1
               /\ \A k \in Evicted(Inserted(key, d)), other \in DOMAIN cache.File :
                     Inserted(key, d)[other].present =>
                        Inserted(key, d)[k].createAt
                           <= Inserted(key, d)[other].createAt
      ]_vars

C17_Witness ==
    \E c \in DOMAIN pc :
        /\ call[c].op = "store"
        /\ Enabled(cache)
        /\ cache.Options.MaxItems = 2
        /\ Count(cache.File) = 3
        /\ cache.File[call[c].fileName] = Entry(call[c].buf, now)

\* What the eviction does keep: with an entry older than the instant of the
\* Store, the count never grows beyond MaxItems by that Store and exactly
\* one entry of the oldest timestamp goes.
EvictionWithOlderEntry ==
    [][\A c \in DOMAIN pc, key \in DOMAIN cache.File, d \in Payloads :
         (/\ StoreStep(c, key, d)
          /\ Enabled(cache)
          /\ d.len <= cache.Options.MaxSizeMB * BytesPerMB
          /\ ~cache.File[key].present
          /\ Count(Inserted(key, d)) > cache.Options.MaxItems
          /\ \E k \in DOMAIN cache.File :
                cache.File[k].present /\ cache.File[k].createAt < now)
            => /\ Cardinality(Evicted(Inserted(key, d))) = 1
               /\ Count(cache'.File) = Count(cache.File)
               /\ \A k \in Evicted(Inserted(key, d)), other \in DOMAIN cache.File :
                     Inserted(key, d)[other].present =>
                        Inserted(key, d)[k].createAt
                           <= Inserted(key, d)[other].createAt
      ]_vars

----------------------------------------------------------------------------
(* Properties of the transform pipeline *)

Props == backend.properties

\* The configurations that build a write and a read pipeline.
Configured ==
    /\ Props.SaveCompress \in CompressionAlgorithms
    /\ Props.SaveEncrypt \in EncryptionAlgorithms
    /\ Props.SaveEncrypt = AES256_ENCRYPTION => Props.EncryptKey # ""

\* The object of the storage service is what the write pipeline of this
\* connection makes of the payload (under some nonce).
Written(payload) ==
    \E nonce \in Nonces :
        LET pipe == BuildWPipelineCompressEncrypt(Props, Props.EncryptKey)
            out == WritePipelineApply(pipe, nonce, BytesReader(payload))
        IN /\ out.err = ""
           /\ backend.object = Object(out.reader.bytes)

\* This step is a GetObject of the backend client.
BackendGets(c) ==
    /\ call'[c].op = "get"
    /\ backend'.object = backend.object

\* What GetObject returns when the storage service does not deliver the
\* object.
ServiceFailures ==
    {Error("download stream"),
     Error("fail to transform reader: aesgcm: read input"),
     Error("fail to transform reader: gzip: read input"),
     Data(BrokenReader)}

\* C18: for SaveCompress in {none, gzip} and SaveEncrypt in {none, AES256
\* with a key}, and every payload, the empty one too: the read pipeline
\* (decrypt, then decompress) applied to what the write pipeline (compress,
\* then encrypt) of the same properties and key made of the payload returns
\* the payload's bytes.
C18_RoundTrip ==
    [][\A c \in Callers :
          (Configured /\ BackendGets(c))
              => \A payload \in RawStrings(MaxPayloadLen) :
                    Written(payload)
                        => call'[c].result
                              \in {Data(BytesReader(payload))}
                                     \cup ServiceFailures]_vars

\* A compressed and sealed payload has been read back.
C18_Witness ==
    /\ Props.SaveCompress = GZIP_COMPRESSION
    /\ Props.SaveEncrypt = AES256_ENCRYPTION
    /\ Written(<<Raw(1)>>)
    /\ \E c \in Callers :
          /\ call[c].op = "get"
          /\ call[c].result = Data(BytesReader(<<Raw(1)>>))

\* The connection encrypts and has no passphrase.
KeyMissing ==
    /\ backend.kind \in BackendKinds
    /\ Props.SaveEncrypt = AES256_ENCRYPTION
    /\ Props.EncryptKey = ""

\* The errors of a PutObject that got no further than building its
\* pipeline.
PutBuildErrors ==
    {Error("reader is nil"),
     Error("build write pipeline: unsupported compression algorithm"),
     Error("build write pipeline: "
             \o "missing encryption key for AES256_ENCRYPTION")}

GetBuildErrors ==
    {Error("build read pipeline: "
             \o "missing decryption key for AES256_ENCRYPTION")}

Decrypts == Configured /\ Props.SaveEncrypt = AES256_ENCRYPTION

\* The bytes that encryption under the passphrase gives, whatever the
\* nonce and the plain bytes.
SealedUnder(b, Key) ==
    LET plain == RawStrings(MaxPayloadLen)
    IN \E nonce \in Nonces :
         \E sealed \in plain \cup {GzipStream(x) : x \in plain} :
            b = nonce \o Seal(SHA256(Key), nonce, sealed)

\* C20: AESGCMDecrypt returns an error, and no plain bytes, for every input
\* shorter than the nonce and for every input that encryption under the
\* same key did not produce (a changed nonce, ciphertext or tag, a
\* truncated input, another key).
C20_DecryptRejects ==
    [][\A c \in Callers :
          (/\ Decrypts
           /\ BackendGets(c)
           /\ backend.object.present
           /\ call'[c].result \notin ServiceFailures)
              => LET b == backend.object.bytes
                 IN /\ Len(b) < NonceSize
                        => call'[c].result =
                             Error("fail to transform reader: aesgcm: "
                                     \o "invalid ciphertext (too short)")
                    /\ (Len(b) >= NonceSize
                          /\ ~SealedUnder(b, Props.EncryptKey))
                        => call'[c].result =
                             Error("fail to transform reader: aesgcm: "
                                     \o "decryption failed")]_vars

\* GetObject has refused an object that was sealed under another key.
C20_Witness ==
    /\ Decrypts
    /\ Props.EncryptKey = "k1"
    /\ SealedUnder(backend.object.bytes, "k2")
    /\ \E c \in Callers :
          /\ call[c].op = "get"
          /\ call[c].result =
                Error("fail to transform reader: aesgcm: decryption failed")

----------------------------------------------------------------------------
(* Properties of the write attempts *)

\* The number of times a backend occurs in a sequence of backends.
Occurrences(s, b) == Cardinality({j \in DOMAIN s : s[j] = b})

\* The writes that the PutObject call in progress has issued to a backend:
\* those of its loop and those of the goroutines it launched that have run.
WriteAttempts(c, b) ==
    Occurrences(call[c].tried, b)
        + Cardinality({g \in bg : /\ g.call = nops
                                  /\ g.backend = b
                                  /\ g.state # "launched"})

PutPositions == {"putSync", "putAsync", "putFanOut", "putAsyncReturn"}

\* C21: within one PutObject call, in SYNC and in ASYNC mode, every main
\* backend receives at most one write attempt, the synchronous pass and the
\* background fan-out counted together.
C21_NoRetry ==
    \A c \in Callers :
        pc[c] \in PutPositions =>
            \A b \in DOMAIN storages : WriteAttempts(c, b) <= 1

\* An ASYNC PutObject is about to return nil and a goroutine has written
\* again to the main backend that failed in the synchronous pass.
C21_Witness ==
    \E c \in Callers :
        /\ pc[c] = "putAsyncReturn"
        /\ call[c].tried = <<1, 2>>
        /\ WriteAttempts(c, 1) = 2

----------------------------------------------------------------------------
(* Properties of the round robin load balancer *)

\* The cursor of the load balancer (0 before it is built).
Cursor == IF lb = NoLoadBalancer THEN 0 ELSE lb.currentClient

\* The replicas from index start on, wrapping once, then the main backends
\* in list order.
RotatedReplicasThenMains(start) ==
    [j \in 1..Len(storages) |->
        IF j <= NumReplicas
        THEN NthReplica(((start + j - 1) % NumReplicas) + 1)
        ELSE NthMain(j - NumReplicas)]

\* C22: with ROUND_ROBIN and n >= 1 replicas, a GetObject call that reaches
\* the load balancer with cursor value k asks the replicas from index
\* k mod n on, wrapping once, each at most once; the main backends are asked
\* only after all n replicas have failed, in list order; the first success
\* ends the attempts and its bytes are returned.
C22_RoundRobinAttempts ==
    [][\A c \in Callers :
         (lbStrategy = ROUND_ROBIN /\ NumReplicas >= 1) =>
            /\ (pc[c] = "getBalance" /\ pc'[c] = "getTry") =>
                  call'[c].mains
                     = RotatedReplicasThenMains(Cursor % NumReplicas)
            /\ pc'[c] \in {"getTry", "getStore"} =>
                  /\ IsPrefix(call'[c].tried, call'[c].mains)
                  /\ \A b \in DOMAIN storages :
                        Occurrences(call'[c].tried, b) <= 1
                  /\ pc'[c] = "getTry" => call'[c].errs = call'[c].tried
                  /\ pc'[c] = "getStore" =>
                        /\ call'[c].tried # <<>>
                        /\ call'[c].errs = Front(call'[c].tried)
            /\ pc[c] \in {"getTry", "getStore"} =>
                  (pc'[c] # "idle" => call'[c].mains = call[c].mains)
            /\ pc[c] = "getStore" =>
                  /\ pc'[c] \in {"getStore", "idle"}
                  /\ pc'[c] = "getStore" => call'[c].tried = call[c].tried
            /\ (Returns(c, {"getStore"}) /\ call'[c].result.text = "nil") =>
                  call'[c].result.data = call[c].buf
      ]_vars

\* The second call started at the second replica, wrapped to the first and
\* was served by the main backend.
C22_Witness ==
    \E c \in Callers :
        /\ lbStrategy = ROUND_ROBIN
        /\ storages = <<FALSE, TRUE, FALSE>>
        /\ nops = 2
        /\ pc[c] = "getStore"
        /\ call[c].tried = <<3, 1, 2>>
        /\ call[c].errs = <<3, 1>>

\* C23: when every configured backend is a main backend, a ROUND_ROBIN
\* GetObject asks the main backends in list order starting from the first
\* one, on every call, as READ_REPLICA_FIRST does.
C23_NoRotationWithoutReplicas ==
    [][\A c \in Callers :
         (/\ lbStrategy = ROUND_ROBIN
          /\ Len(storages) >= 1
          /\ NumReplicas = 0
          /\ pc'[c] \in {"getTry", "getStore"})
            => IsPrefix(call'[c].tried, ReplicasThenMains)
      ]_vars

\* The second call over two main backends was served by the second one
\* without asking the first.
C23_Witness ==
    \E c \in Callers :
        /\ lbStrategy = ROUND_ROBIN
        /\ storages = <<TRUE, TRUE>>
        /\ nops = 2
        /\ pc[c] = "getStore"
        /\ call[c].tried = <<2>>

\* The errors of a load balancer that was given no backend.
NoBackendErrors ==
    [s \in {READ_REPLICA_FIRST, ROUND_ROBIN} |->
        IF s = READ_REPLICA_FIRST
        THEN Error("FileClient GetObject error: no clients available in the group")
        ELSE Error("FileClient GetObject error: no client groups configured")]

GetPositions == {"getHit", "getBalance", "getTry", "getStore"}

\* C24: with no backend configured a GetObject, under READ_REPLICA_FIRST as
\* under ROUND_ROBIN, asks no backend, stores nothing in the cache, and
\* returns no data and the error of its strategy for an empty configuration.
C24_NoBackends ==
    [][\A c \in Callers :
         (/\ Len(storages) = 0
          /\ lbStrategy \in {READ_REPLICA_FIRST, ROUND_ROBIN})
            => /\ pc'[c] \in GetPositions =>
                    /\ pc'[c] \in {"getBalance", "getTry"}
                    /\ call'[c].tried = <<>>
                    /\ cache'.File = cache.File
               /\ Returns(c, GetPositions) =>
                    /\ pc[c] = "getTry"
                    /\ call'[c].result = NoBackendErrors[lbStrategy]
                    /\ cache'.File = cache.File
      ]_vars

\* A FileClient with an enabled cache and no backend has answered a
\* GetObject under ROUND_ROBIN.
C24_Witness ==
    \E c \in Callers :
        /\ storages = <<>>
        /\ lbStrategy = ROUND_ROBIN
        /\ CacheInUse(cache)
        /\ Returned(c, "get")
        /\ call[c].result = NoBackendErrors[ROUND_ROBIN]

\* C25: the load balancer of a FileClient is constructed once, when f.lb is
\* still nil, also when the first GetObject calls run at the same time; once
\* built it is never replaced, and its cursor changes only by the advance of
\* an Apply.
C25_LoadBalancerBuiltOnce ==
    [][/\ \A c \in DOMAIN pc :
            (pc[c] = "getNewLb" /\ pc'[c] = "getApply")
                => lb = NoLoadBalancer
       /\ lb # NoLoadBalancer =>
            \/ lb' = lb
            \/ \E c \in DOMAIN pc :
                 /\ pc[c] = "getApply"
                 /\ pc'[c] = "getTry"
                 /\ lb' = RoundRobinAdvance(lb)
      ]_vars

\* The first caller has applied the load balancer over three replicas, yet
\* the cursor is back at 0: the second caller has assigned a new one.
C25_Witness ==
    /\ lbStrategy = ROUND_ROBIN
    /\ storages = <<FALSE, FALSE, FALSE>>
    /\ nops = 2
    /\ pc = <<"getTry", "getApply">>
    /\ lb # NoLoadBalancer
    /\ lb.currentClient = 0

----------------------------------------------------------------------------
(* Properties of the validation routine *)

\* The step is the validation goroutine examining one entry of its sample.
ExaminesSample == val.state = "validate" /\ val'.sample # val.sample

\* The step removes the entry of key from the map.
Deletes(key) == cache.File[key].present /\ ~cache'.File[key].present

\* C26: a validation pass deletes a key only when the key is in its sample
\* and, at the deletion, the entry is present with the timestamp of the
\* snapshot and is older than the TTL; an entry stored again since the
\* snapshot, or of age at most TTL, is not deleted by the pass.
C26_DeletesOnlyStillExpired ==
    [][ExaminesSample =>
          \A key \in DOMAIN cache.File :
              Deletes(key) =>
                  /\ \E e \in val.sample \ val'.sample :
                        /\ e[1] = key
                        /\ e[2] = cache.File[key].createAt
                  /\ Age(cache.File[key]) > cache.Options.TTL
      ]_vars

\* The last call stored the key; the validation pass that runs has deleted it.
C26_Witness ==
    \E c \in Callers, key \in DOMAIN cache.File :
        /\ call[c].op = "store"
        /\ call[c].fileName = key
        /\ call[c].buf.len = 0
        /\ val.state = "validate"
        /\ ~cache.File[key].present

\* The step starts a validation pass: SamplingValidation.Apply is called.
PassStarts == val.state = "select" /\ val'.state = "validate"

\* The keys a pass has still to examine.
SampledKeys(task) == {e[1] : e \in task.sample}

\* max(1, ceil(n * p / 100)), computed from its definition.
AtLeastOneCeil(n, p) ==
    LET ceil == CHOOSE k \in 0..n : /\ 100 * k >= n * p
                                    /\ \A j \in 0..n : 100 * j >= n * p => k <= j
    IN IF ceil < 1 THEN 1 ELSE ceil

SamplingPercent == cache.Options.ValidationStrategy.SamplingPercent

\* C27 as stated: a pass over a snapshot of n >= 1 entries with percent p in
\* 0..100 examines exactly max(1, ceil(n * p / 100)) distinct keys.
C27_SampleSize ==
    [][(PassStarts /\ Count(cache.File) >= 1 /\ SamplingPercent \in 0..100) =>
          Cardinality(SampledKeys(val')) =
              AtLeastOneCeil(Count(cache.File), SamplingPercent)
      ]_vars

\* C27 amended: a pass over a snapshot of n >= 1 entries with percent p in
\* 1..100 examines exactly max(1, ceil(n * p / 100)) distinct keys of the
\* snapshot, never more than n, each once; with p = 0 it examines none.
C27_SampleSizePositiveRate ==
    [][/\ (PassStarts /\ Count(cache.File) >= 1 /\ SamplingPercent \in 0..100) =>
            /\ val'.sample \subseteq Snapshot(cache.File)
            /\ Cardinality(SampledKeys(val')) = Cardinality(val'.sample)
            /\ Cardinality(SampledKeys(val')) <= Count(cache.File)
            /\ Cardinality(SampledKeys(val')) =
                  IF SamplingPercent = 0 THEN 0
                  ELSE AtLeastOneCeil(Count(cache.File), SamplingPercent)
       /\ ExaminesSample =>
            /\ val'.sample \subseteq val.sample
            /\ Cardinality(val.sample \ val'.sample) = 1
      ]_vars

\* A pass with 50 percent has just drawn two of the three entries.
C27_Witness ==
    /\ SamplingPercent = 50
    /\ Count(cache.File) = 3
    /\ val.state = "validate"
    /\ val.at = now
    /\ Cardinality(SampledKeys(val)) = 2
    /\ val.sample \subseteq Snapshot(cache.File)

\* The validation goroutines of the cache that have not returned.
AliveTasks == BagCardinality(valWG)

\* The step is a call of StartValidationRoutine by caller c.
StartStep(c) ==
    \/ pc[c] = "idle" /\ pc'[c] = "idle" /\ call'[c].op = "start"
       /\ call'[c] # call[c]
    \/ pc[c] = "setStart" /\ pc'[c] = "idle"

\* C28: whatever the interleaving of StartValidationRoutine,
\* StopValidationRoutine and SetValidationOptions calls on one cache, at most
\* one validation goroutine of the cache is alive at any time, and a start
\* made while a goroutine is alive creates none.
C28_AtMostOneTask ==
    /\ [](AliveTasks <= 1)
    /\ [][\A c \in DOMAIN pc :
            (StartStep(c) /\ AliveTasks >= 1) => valWG' = valWG]_vars

\* A cancelled goroutine is in the middle of a pass while the goroutine of a
\* later start waits for its ticker.
C28_Witness ==
    /\ AliveTasks = 2
    /\ \E old \in BagToSet(valWG), new \in BagToSet(valWG) :
         /\ old.cancelled /\ old.state = "validate"
         /\ ~new.cancelled /\ new.state = "select"
    /\ cache.valCancel
    /\ \E c \in DOMAIN pc : pc[c] = "stopWait"

\* The positions at which a caller waits in StopValidationRoutine.
StopWaits == {"configureWait", "disableWait"}

\* The step is the return of StopValidationRoutine to caller c.
StopReturns(c) == pc[c] \in StopWaits /\ pc'[c] # pc[c]

\* C29: when StopValidationRoutine returns, in DisableCache or in a
\* ConfigureCache that replaces a cache, the goroutine it cancelled has
\* returned; a cancelled goroutine is alive only while its stopper waits, so
\* none runs a pass after the return, and no goroutine is alive for a cache
\* that DisableCache has disabled.
C29_StopWaitsForExit ==
    /\ [][\A c \in Callers : StopReturns(c) => val = NoTask]_vars
    /\ []((\A c \in Callers : pc[c] \notin StopWaits) => ~val.cancelled)
    /\ []((cache.configured /\ ~cache.Options.Enabled) => val = NoTask)

\* DisableCache waits in StopValidationRoutine and the goroutine it has
\* cancelled has returned.
C29_Witness ==
    \E c \in Callers :
        /\ pc[c] = "disableWait"
        /\ call[c].op = "disable"
        /\ cache.Options.Enabled
        /\ ~cache.valCancel
        /\ val = NoTask

\* The policy is a sampling policy.
IsSampling(v) == ~v.isNil /\ v.Strategy = SAMPLING_VALIDATION

\* The step is the return of SetValidationOptions to caller c.
SetReturns(c) == pc[c] = "setStart" /\ pc'[c] = "idle"

\* C30: when SetValidationOptions(v) returns on an enabled cache, the
\* goroutine that ran before has returned; for a sampling policy v exactly
\* one goroutine is alive, it is not cancelled, it waits for a ticker of v's
\* interval (30 minutes when v gives none) and its passes read v; for v nil
\* or NO_VALIDATION no goroutine is alive.
C30_SetValidationOptionsRestarts ==
    [][\A c \in DOMAIN pc :
         (SetReturns(c) /\ cache.Options.Enabled) =>
            LET v == call[c].opts.ValidationStrategy IN
            /\ valWG = EmptyBag
            /\ cache'.Options.ValidationStrategy = v
            /\ IF IsSampling(v)
               THEN /\ AliveTasks' = 1
                    /\ cache'.valCancel
                    /\ \A task \in BagToSet(valWG') :
                         /\ task.state = "select"
                         /\ ~task.cancelled
                         /\ task.interval =
                               IF v.ValidationInterval > 0
                               THEN v.ValidationInterval
                               ELSE DefaultValidationInterval
                         /\ \A next \in Ticked(task, cache', now') :
                              /\ next # NoTask
                              /\ Count(cache'.File) >= 1 =>
                                   Cardinality(next.sample) =
                                       AtLeastOneCeil(Count(cache'.File),
                                                      v.SamplingPercent)
               ELSE /\ AliveTasks' = 0
                    /\ ~cache'.valCancel
      ]_vars

\* SetValidationOptions has replaced the policy of 50 percent every minute
\* by 100 percent every two minutes, and the new goroutine runs.
C30_Witness ==
    \E c \in DOMAIN pc :
        /\ pc[c] = "idle"
        /\ call[c].op = "set"
        /\ call[c].opts.ValidationStrategy.SamplingPercent = 100
        /\ cache.Options = call[c].opts
        /\ cache.Options.Enabled
        /\ AliveTasks = 1
        /\ \A task \in BagToSet(valWG) :
              ~task.cancelled /\ task.interval = 2 * Minute

----------------------------------------------------------------------------
(* C31 - the locks of the FileCache.                                       *)

\* The step with which caller c, holding mu, releases it.
MuHolderStep(c) ==
    DataUnlockMu(c) \/ StartReadOptions(c) \/ SetStoreOptions(c)

\* The step with which a validation goroutine holding mu releases it.
TaskMuStep == TaskTickRead \/ TaskFactory \/ TaskSnapshot \/ TaskExamine

\* The step of caller c while it holds valMu.
ValMuHolderStep(c) == StartLockMu(c) \/ StartSpawn(c) \/ StopCancel(c)

\* A lock is taken only when it is free, and a goroutine that takes valMu
\* holds no mu: the only nesting is valMu, then mu.
LockOrder ==
    /\ cache'.valMu # cache.valMu /\ cache'.valMu # 0
          => cache.valMu = 0 /\ cache.mu # cache'.valMu
    /\ cache'.mu # cache.mu /\ cache'.mu # 0 => cache.mu = 0

\* Nothing that holds a lock is blocked, except StartValidationRoutine
\* waiting with valMu for a mu another goroutine holds, and the validation
\* goroutines never take valMu.
NoLockHolderBlocked ==
    /\ cache.valMu \in {0} \cup ConcurrentCallers
    /\ \A c \in ConcurrentCallers :
         /\ cache.mu = c => ENABLED MuHolderStep(c)
         /\ cache.valMu = c /\ cache.mu \in {0, c} =>
               ENABLED (ValMuHolderStep(c) \/ MuHolderStep(c))
    /\ cache.mu = TaskHolder => ENABLED TaskMuStep

\* StopValidationRoutine waits for the goroutine with no lock in hand.
StopWaitsUnlocked ==
    \A c \in ConcurrentCallers :
        pc[c] \in {"stopWait", "stopWaiting"} =>
            cache.mu # c /\ cache.valMu # c

\* C31: for every interleaving of Store, GetFile, Invalidate, Clear,
\* StartValidationRoutine, StopValidationRoutine, SetValidationOptions and
\* the validation goroutines, no goroutine that holds a lock is blocked by a
\* goroutine waiting for it: the locks are nested only as valMu then mu, a
\* holder of mu can always release it, and StopValidationRoutine holds
\* neither lock while it waits for the goroutine to exit.
C31_NoDeadlock ==
    /\ [](NoLockHolderBlocked /\ StopWaitsUnlocked)
    /\ [][LockOrder]_vars

\* A stopper waits for the goroutine, which holds mu, while the other caller
\* holds valMu in StartValidationRoutine and waits for mu.
C31_Witness ==
    \E c, d \in ConcurrentCallers :
        /\ pc[c] = "stopWaiting"
        /\ pc[d] = "startHasVal"
        /\ cache.valMu = d
        /\ cache.mu = TaskHolder
        /\ ~cache.valCancel

----------------------------------------------------------------------------
(* C37 - the validation goroutine and a change of policy.                  *)

\* The step ends an iteration of some goroutine whose factory call failed.
FailedIteration(task) ==
    /\ task.state = "readOptions"
    /\ RunnerOf(cache.Options.ValidationStrategy) = "error"
    /\ \A t \in BagToSet(valWG') : t.state # "readOptions"

\* C37: the validation goroutine never crashes: whatever the interleaving of
\* its tick with SetValidationOptions(nil) or with a NO_VALIDATION policy,
\* validateCache never applies a nil runner, and an iteration that fails
\* with an unsupported strategy leaves the goroutine waiting for its next
\* tick.
C37_NeverCrashes ==
    /\ [](~Panicked)
    /\ [][\A task \in BagToSet(valWG) :
            FailedIteration(task) =>
                BagIn([task EXCEPT !.state = "select"], valWG')]_vars

\* The goroutine applied the nil runner: the policy it read at its tick was
\* a sampling one, and SetValidationOptions replaced it before validateCache
\* read it again.
C37_Witness ==
    /\ Panicked
    /\ RunnerOf(cache.Options.ValidationStrategy) = "nil"
    /\ \E c \in ConcurrentCallers : call[c].op = "set"

\* An iteration failed on an unsupported strategy and the goroutine waits
\* for its next tick.
C37_FailedIterationContinues ==
    [][\A task \in BagToSet(valWG) :
          FailedIteration(task) =>
              BagIn([task EXCEPT !.state = "select"], valWG')]_vars

----------------------------------------------------------------------------
(* C36 - StopValidationRoutine next to StartValidationRoutine.  The two    *)
(* callers only start and stop the routine of a cache that stays empty.    *)

NextStop ==
    \/ \E c \in ConcurrentCallers : StartEnter(c)
    \/ \E c \in ConcurrentCallers : StartLockValMu(c)
    \/ \E c \in ConcurrentCallers : StartLockMu(c)
    \/ \E c \in ConcurrentCallers : StartReadOptions(c)
    \/ \E c \in ConcurrentCallers : StartSpawn(c)
    \/ \E c \in ConcurrentCallers : StopEnter(c)
    \/ \E c \in ConcurrentCallers : StopLockValMu(c)
    \/ \E c \in ConcurrentCallers : StopCancel(c)
    \/ \E c \in ConcurrentCallers : StopWait(c)
    \/ TaskLockMu
    \/ TaskTickRead
    \/ TaskFactory
    \/ TaskSnapshot
    \/ TaskExit

SpecStop == InitLocks /\ [][NextStop]_vars

\* The steps of a call of caller c that is under way.
StopCallStep(c) ==
    \/ StartLockValMu(c) \/ StartLockMu(c) \/ StartReadOptions(c)
    \/ StartSpawn(c)
    \/ StopLockValMu(c) \/ StopCancel(c) \/ StopWait(c)

\* A step of a validation goroutine whose context is, or is not, cancelled.
StopTaskStep(cancelled) ==
    /\ TaskLockMu \/ TaskTickRead \/ TaskFactory \/ TaskSnapshot \/ TaskExit
    /\ \E task \in BagToSet(valWG) :
         /\ task.cancelled = cancelled
         /\ CopiesIn(task, valWG') < CopiesIn(task, valWG)

\* The scheduler runs every goroutine that can run, a goroutine waiting for
\* a mutex gets it (sync.Mutex hands the lock over to a starving waiter),
\* and a select with a cancelled context ready takes that case in the end.
\* Nothing makes a caller begin a call.
FairSpecStop ==
    /\ SpecStop
    /\ \A c \in ConcurrentCallers : SF_vars(StopCallStep(c))
    /\ \A cancelled \in BOOLEAN : SF_vars(StopTaskStep(cancelled))
    /\ SF_vars(TaskExit)

\* A caller in valWG.Wait() waits only for goroutines that were cancelled.
WaitsForCancelledOnly ==
    \A c \in ConcurrentCallers :
        pc[c] = "stopWaiting" =>
            \A task \in BagToSet(valWG) : task.cancelled

\* A call of StopValidationRoutine that has begun returns.
C36_StopReturns ==
    \A c \in ConcurrentCallers :
        (call[c].op = "stop" /\ pc[c] # "idle") ~> (pc[c] = "idle")

\* C36: StopValidationRoutine always terminates: for every interleaving with
\* a concurrent StartValidationRoutine on the same cache the stopper returns,
\* and while it waits it waits only for the goroutine it cancelled, never for
\* one that was started after its cancel.
C36_StopTerminates ==
    /\ []WaitsForCancelledOnly
    /\ C36_StopReturns

\* The goroutine a stopper cancelled has returned, and the stopper is still
\* in valWG.Wait(), held by the goroutine the other caller started after the
\* cancel.
C36_Witness ==
    \E c, d \in ConcurrentCallers :
        /\ pc[c] = "stopWaiting" /\ call[c].op = "stop"
        /\ c # d /\ pc[d] = "idle" /\ call[d].op = "start"
        /\ cache.valCancel
        /\ BagCardinality(valWG) = 1
        /\ \A task \in BagToSet(valWG) : ~task.cancelled

----------------------------------------------------------------------------
(* C32 - the size limit of Store.                                          *)

\* The step is the call Store(key, d) of caller c.
StoreCalled(c, key, d) ==
    /\ call'[c] = CacheCall("store", key, d, Nil)
    /\ now' = now
    /\ val' = val

\* The largest payload, in bytes, the cache accepts.
SizeLimit == cache.Options.MaxSizeMB * BytesPerMB

\* C32: Store of a payload larger than MaxSizeMB megabytes is rejected and
\* leaves the map as it was - nothing inserted, overwritten or evicted - so
\* no entry of a reachable cache holds more than MaxSizeMB megabytes.
C32_OversizedRejected ==
    /\ [](\A key \in DOMAIN cache.File :
            cache.File[key].present => cache.File[key].data.len <= SizeLimit)
    /\ [][\A c \in DOMAIN pc, key \in DOMAIN cache.File, d \in Payloads :
            (StoreCalled(c, key, d) /\ d.len > SizeLimit)
                => cache'.File = cache.File]_vars

\* An oversized Store on a key that is cached, in a cache that is full: the
\* entry still holds its accepted payload.
C32_Witness ==
    \E c \in DOMAIN pc :
        /\ call[c].op = "store"
        /\ call[c].buf.len > SizeLimit
        /\ cache.File[call[c].fileName].present
        /\ cache.File[call[c].fileName].data.len <= SizeLimit
        /\ Count(cache.File) >= cache.Options.MaxItems

----------------------------------------------------------------------------
(* C33 - Store on a key that is cached.                                    *)

\* C33: Store of an accepted payload on a key that is already present puts
\* the new bytes in the key's entry and sets its timestamp to the current
\* time; the number of entries and every other entry are unchanged, and
\* nothing is evicted.
C33_OverwriteInPlace ==
    [][\A c \in DOMAIN pc, key \in DOMAIN cache.File, d \in Payloads :
          (/\ StoreCalled(c, key, d)
           /\ Enabled(cache)
           /\ d.len <= SizeLimit
           /\ cache.File[key].present)
              => /\ cache'.File[key] = Entry(d, now)
                 /\ Count(cache'.File) = Count(cache.File)
                 /\ \A other \in DOMAIN cache.File \ {key} :
                       cache'.File[other] = cache.File[other]]_vars

\* A key stored at an earlier time has just been stored again, next to
\* another entry that is older than it was: its timestamp is the current
\* time and the older entry is still there.
C33_Witness ==
    \E c \in DOMAIN pc, other \in DOMAIN cache.File :
        /\ call[c].op = "store"
        /\ other # call[c].fileName
        /\ cache.File[call[c].fileName].present
        /\ cache.File[call[c].fileName].createAt = now
        /\ now > 0
        /\ cache.File[other].present
        /\ cache.File[other].createAt < now
        /\ Count(cache.File) = cache.Options.MaxItems

----------------------------------------------------------------------------
(* C34 - a cache that is disabled or not configured.                       *)

\* The FileClient has no cache, or its cache is switched off.
Disabled == ~cache.configured \/ ~cache.Options.Enabled

\* The step is the beginning of a GetObject of caller c.
GetBegins(c) ==
    pc[c] = "idle" /\ nops' = nops + 1 /\ call'[c].op = "get"

\* On a disabled cache Store leaves the cache as it is and GetFile reports a
\* miss and leaves the map as it is, whatever the key and the payload.
DisabledCacheInert ==
    (cache.configured /\ Disabled) =>
        \A key \in DOMAIN cache.File :
            /\ \A d \in Payloads : Store(cache, key, d, now) = {cache}
            /\ ~GetFileHit(cache, key, now)
            /\ GetFileCache(cache, key, now) = cache

\* C34: while the cache is disabled or not configured Store is a no-op,
\* GetFile reports a miss without touching the map, and every GetObject goes
\* to the load balancer: it leaves the cache as it was and the bytes it
\* returns are those a backend delivered, never cached ones.
C34_DisabledCacheBypassed ==
    /\ [](DisabledCacheInert
          /\ \A c \in DOMAIN pc : pc[c] = "getHit" => ~Disabled)
    /\ [][\A c \in DOMAIN pc :
            Disabled =>
               /\ GetBegins(c) => pc'[c] = "getBalance" /\ cache' = cache
               /\ Returns(c, {"getStore"}) =>
                     /\ cache' = cache
                     /\ call'[c].result.text = "nil" =>
                           /\ call'[c].result = Data(call[c].buf)
                           /\ call[c].tried # <<>>]_vars

\* A GetObject on a disabled cache that still holds the key has returned the
\* bytes of a backend, which are not the bytes in the map.
C34_Witness ==
    \E c \in DOMAIN pc :
        /\ Returned(c, "get")
        /\ cache.configured /\ ~cache.Options.Enabled
        /\ cache.File[KeyOf(c)].present
        /\ call[c].result.text = "nil"
        /\ call[c].result.data # cache.File[KeyOf(c)].data

----------------------------------------------------------------------------
(* C38 - the cursor of the round robin load balancer.                      *)

\* The size of the primary group of load balancer r (0 without groups).
PrimarySize(r) == IF Len(r.group) = 0 THEN 0 ELSE Len(r.group[1])

\* The step is the one in which the GetObject of caller c, having missed the
\* cache, reaches the load balancer.
ReachesLoadBalancer(c) == pc[c] = "getBalance" /\ pc'[c] = "getTry"

\* C38: the cursor of the round robin load balancer is always in [0, n) for
\* a primary group of size n > 0; every GetObject that reaches the load
\* balancer advances it by exactly one modulo n, before any backend is asked
\* and so whether the call succeeds or fails; no other step changes it:
\* not PutObject, RemoveObject, a GetObject served by the cache or a cache
\* configuration call.
C38_CursorAdvancesByOne ==
    /\ []((lb # NoLoadBalancer /\ lb.strategy = ROUND_ROBIN
                               /\ PrimarySize(lb) > 0)
            => lb.currentClient \in 0..(PrimarySize(lb) - 1))
    /\ [][/\ Cursor' # Cursor => \E c \in DOMAIN pc : ReachesLoadBalancer(c)
          /\ \A c \in DOMAIN pc :
                (/\ ReachesLoadBalancer(c)
                 /\ lb'.strategy = ROUND_ROBIN
                 /\ PrimarySize(lb') > 0)
                   => Cursor' = (Cursor + 1) % PrimarySize(lb')]_vars

\* The cursor has wrapped: the second GetObject that reached the load
\* balancer has put the cursor of a primary group of two back at 0.
C38_Witness ==
    \E c \in DOMAIN pc :
        /\ lb # NoLoadBalancer /\ lb.strategy = ROUND_ROBIN
        /\ PrimarySize(lb) = 2
        /\ lb.currentClient = 0
        /\ nops = 2
        /\ call[c].op = "get"
        /\ pc[c] = "getTry"

----------------------------------------------------------------------------
(* C40 - the cache and the calls that return an error.                     *)

\* The step is a step of the call under way of caller c, or its beginning.
CallerStep(c) == pc'[c] # pc[c] \/ call'[c] # call[c]

\* The step ends a call of caller c with a nil error.
ReturnsNil(c) == pc'[c] = "idle" /\ call'[c].result.text = "nil"

\* C40: a call that returns an error has no write effect on the cache.  No
\* step of a PutObject or RemoveObject but its return with nil changes the
\* map, so a call that ends with an error - no main backend, failure on all
\* or on some backends, nil reader, unsupported mode - has removed no
\* entry; no step of a GetObject but its return with data inserts or
\* overwrites an entry.
C40_ErrorsLeaveCache ==
    [][\A c \in DOMAIN pc :
          (CallerStep(c) /\ ~ReturnsNil(c)) =>
             /\ call'[c].op \in {"put", "remove"} => cache' = cache
             /\ call'[c].op = "get" =>
                   \A key \in DOMAIN cache'.File :
                       cache'.File[key].present =>
                           cache'.File[key] = cache.File[key]]_vars

\* A SYNC PutObject of a key that is cached has failed on one of two main
\* backends: it returned the partial failure and the entry is still cached.
C40_Witness ==
    \E c \in DOMAIN pc :
        /\ Returned(c, "put")
        /\ PartiallyFailedOn(call[c].result, 1, 2)
        /\ CacheInUse(cache)
        /\ cache.File[KeyOf(c)].present

----------------------------------------------------------------------------
(* C39 - concurrent calls of roundRobinLB.Apply.                           *)

\* The goroutines whose Apply has taken its start index.
TookStart ==
    {c \in DOMAIN pc :
        /\ call[c].op = "apply"
        /\ call[c].result = Pending
        /\ pc[c] \in {"applyAdvance", "applyUnlock", "idle"}}

\* C39: on a round robin load balancer that is built, with n primary
\* backends, the start indices of up to n Apply calls that run concurrently
\* are pairwise distinct: no two calls read the same value of the cursor.
C39_DistinctStarts ==
    (Len(lb.group) > 0 /\ Cardinality(TookStart) <= Len(lb.group[1])) =>
        \A c, d \in TookStart : c # d => call[c].i # call[d].i

\* Three calls on three primary backends have taken the starts 0, 1 and 2,
\* the last of them still holding the mutex.
C39_Witness ==
    /\ Len(lb.group) > 0
    /\ Len(lb.group[1]) = 3
    /\ Cardinality(TookStart) = 3
    /\ {call[c].i : c \in TookStart} = {0, 1, 2}
    /\ \E c \in TookStart : pc[c] = "applyUnlock"

----------------------------------------------------------------------------
(* C35 - a GetObject next to a PutObject of the same key.                  *)

\* Both goroutines have returned from their calls: the last call of the
\* writer was a PutObject that returned nil, the last of the reader a
\* GetObject.
BothReturned ==
    /\ \A c \in DOMAIN pc : pc[c] = "idle"
    /\ call[Writer].op = "put" /\ call[Writer].result = Nil
    /\ call[Reader].op = "get"

\* C35: with the cache enabled, once a PutObject that returned nil and a
\* GetObject of the same key that ran next to it have both returned, the
\* cache holds no bytes older than those the PutObject wrote: the entry of
\* the key, when there is one, is the object the PutObject left in the
\* backend.
C35_NoStaleEntry ==
    (BothReturned /\ cache.File[KeyOf(Reader)].present)
        => Object(cache.File[KeyOf(Reader)].data) = backend.object

\* The PutObject has written its bytes and returned nil, the GetObject that
\* had read the backend before the write has returned the old bytes, and
\* the cache serves the old bytes from now on.
C35_Witness ==
    /\ BothReturned
    /\ cache.File[KeyOf(Reader)].present
    /\ cache.File[KeyOf(Reader)].data = StaleObject.bytes
    /\ backend.object.bytes.id > StaleObject.bytes.id
    /\ call[Reader].result = Data(StaleObject.bytes)
    /\ GetFileHit(cache, KeyOf(Reader), now)

====
